---- MODULE Spec2Model ----
(***************************************************************************)
(* State-machine model of the retrieval / question-answering / consultant  *)
(* pipelines of the legal knowledge base and of the storage operations     *)
(* they call (token debit, history and conversation persistence).          *)
(*                                                                         *)
(* Every handler is cut at its await points: one action runs the code      *)
(* between two awaits.  A capability or storage call that is awaited is    *)
(* answered by the environment with one of the outcomes the call can have  *)
(* (a value from a small set, or a thrown error).                          *)
(***************************************************************************)
EXTENDS Integers, Sequences, FiniteSets, TLC

VARIABLES
  credits,        \* user_credits rows (committed): user -> row, or NoRow
  ledger,         \* token_usage rows (committed), in insertion order
  rowLock,        \* row lock on a user_credits row: user -> holder run, or 0
  conversations,  \* consultant_conversations rows (committed); id = index
  messages,       \* consultant_messages rows (committed), in insertion order
  searchHistory,  \* search_history rows (committed)
  qaHistory,      \* qa_history rows (committed)
  tx,             \* per run: the db.transaction call it is awaiting
  run,            \* per run: locals and position of the request handler
  clock,          \* the time the next new Date() yields
  documents,      \* documents rows: chunk id -> row
  retrieval,      \* a searchDocuments call: arguments and outcome
  extraction      \* a generateSearchKeywords call: response and outcome

vars == <<credits, ledger, rowLock, conversations, messages,
          searchHistory, qaHistory, tx, run, clock,
          documents, retrieval, extraction>>

libVars == <<documents, retrieval, extraction>>

dbVars == <<credits, ledger, rowLock, conversations, messages,
            searchHistory, qaHistory>>

-----------------------------------------------------------------------------
(* Bounds of the model *)

\* tool-calling rounds the modelled language model may ask for in full runs
MaxRounds == 1
\* tool-calling rounds explored for a model that always asks for a tool
LoopBound == 7

\* events that may still sit in a stream's queue, not yet taken by the
\* reader of the response, when the handler closes the stream
MaxQueued == 1

\* the request handlers that may be in flight together
Runs == {1, 2}

-----------------------------------------------------------------------------
(* Program constants *)

SearchMaxLen == 1000
QaMaxLen == 2000
ConsultantMaxLen == 2000
SearchBase == 1000
QaBase == 10000
ConsultantBase == 5000
ProMultiplier == 10
\* iteration cap the specification requires of the tool-calling loop
ToolLoopCap == 6

SearchTool == "searchPRCLegalKnowledgeBase"
OtherTool == "otherFunction"

Users == {"free1", "pay1", "vip1", "admin1"}

\* users.role of each principal
RoleOf(u) ==
  CASE u = "free1" -> "free"
    [] u = "pay1" -> "pay"
    [] u = "vip1" -> "vip"
    [] u = "admin1" -> "admin"

NoRow == [exists |-> FALSE, total |-> 0, used |-> 0, remaining |-> 0]
CreditRow(b) == [exists |-> TRUE, total |-> b, used |-> 0, remaining |-> b]


-----------------------------------------------------------------------------
(* Pure helpers *)

RECURSIVE SumSeq(_)
SumSeq(s) == IF s = <<>> THEN 0 ELSE Head(s) + SumSeq(Tail(s))

Min(a, b) == IF a < b THEN a ELSE b

\* variant: the whole history is kept
LastN_All(s, n) == s

\* the last n elements of s (Array.prototype.slice(-n))
LastN(s, n) == SubSeq(s, Len(s) - Min(n, Len(s)) + 1, Len(s))

\* countTokens: Math.ceil(text.length / 4)
countTokens(len) == (len + 3) \div 4

\* hasCredits: admin is unlimited, others compare the remaining balance
hasCredits(user, required) ==
  IF user.role = "admin" THEN TRUE ELSE user.remaining >= required

hasTokens(user, required) == hasCredits(user, required)

\* variant: the consultant feature is open to every role
hasFeatureAccess_AnyRole(user, feature) ==
  CASE feature \in {"search", "qa", "consultant"} -> TRUE
    [] feature = "pro_model" -> user.role = "vip"
    [] OTHER -> FALSE

hasFeatureAccess(user, feature) ==
  CASE feature \in {"search", "qa"} -> TRUE
    [] feature = "consultant" -> user.role /= "free"
    [] feature = "pro_model" -> user.role = "vip"
    [] OTHER -> FALSE

canUseProModel(user) == hasFeatureAccess(user, "pro_model")

-----------------------------------------------------------------------------
(* Storage: db.transaction and the two transactional operations *)

IdleTx ==
  [n |-> 0, feature |-> "", kind |-> "none", pc |-> "idle", err |-> "none",
   client |-> "none", released |-> 0, stmts |-> <<>>, uid |-> "", ret |-> 0,
   pendCredit |-> NoRow, pendLedger |-> <<>>, convId |-> 0, msgs |-> <<>>,
   title |-> "", totalTokens |-> 0, modelUsed |-> "", pendConv |-> <<>>,
   pendMsgs |-> <<>>, retId |-> 0]

\* updateTokenUsage(session, feature, tokensUsed): the db.transaction call
NewDebitTx(uid, feature, n) ==
  [IdleTx EXCEPT !.kind = "debit", !.pc = "connect",
                 !.uid = uid, !.feature = feature, !.n = n]

\* saveConversation(session, conversationId, messages, title, totalTokens,
\* modelUsed): the db.transaction call
NewSaveTx(uid, convId, msgs, title, totalTokens, modelUsed) ==
  [IdleTx EXCEPT !.kind = "save", !.pc = "connect", !.uid = uid,
                 !.convId = convId, !.msgs = msgs, !.title = title,
                 !.totalTokens = totalTokens, !.modelUsed = modelUsed]

CreditLock(u, r) == [u |-> u, tbl |-> "user_credits", id |-> 0, holder |-> r]
ConvLock(id, r) == [u |-> "", tbl |-> "consultant_conversations", id |-> id,
                    holder |-> r]

\* variant: an UPDATE never waits for the transaction holding the row
RowFree_NoWait(locks, tbl, u, id, r) == TRUE

\* a row updated by a transaction that has not ended blocks other writers
RowFree(locks, tbl, u, id, r) ==
  \A l \in locks : (l.tbl = tbl /\ l.u = u /\ l.id = id) => l.holder = r

LocksOf(locks, r) == {l \in locks : l.holder = r}

\* variant: the new balance is computed from the allocation, not from the
\* current balance
UpdateCreditsRow_FromTotal(row, n) ==
  [row EXCEPT !.used = @ + n, !.remaining = row.total - n]

\* UPDATE user_credits SET used_tokens = used_tokens + $1,
\*                         remaining_tokens = remaining_tokens - $1
UpdateCreditsRow(row, n) ==
  [row EXCEPT !.used = @ + n, !.remaining = @ - n]

\* consultant_conversations: ids of the rows the table can hold
MaxConvs == 3
ConvIds == 1..MaxConvs

NoConv == [exists |-> FALSE, total |-> 0, title |-> "", owner |-> "",
           model |-> ""]

NotFoundOrDenied == "Conversation not found or access denied"

DefaultTitle == "conversation-of-date"
DefaultModel == "gemini-2.5-flash-preview-05-20"

\* a || b on strings: the empty (or absent) string is falsy
OrStr(a, b) == IF a = "" THEN b ELSE a

\* ids held by a committed row or by an INSERT of a transaction in progress
UsedConvIds ==
  {i \in ConvIds : conversations[i].exists}
    \cup {tx[q].retId : q \in {x \in Runs : tx[x].kind = "save"}}

\* the writes of a committed saveConversation applied to the table
ApplyConvWrites(convs, writes) ==
  IF writes = <<>> THEN convs
  ELSE [convs EXCEPT ![writes[1].id] = writes[1].row]

\* first callback of a transaction, by kind
FirstStmt(kind) ==
  IF kind = "debit" THEN "update_credits" ELSE "upsert_conversation"

\* const client = await this.pool.connect()
TxConnect(r, ok) ==
  /\ tx[r].pc = "connect"
  /\ tx' = [tx EXCEPT ![r] =
              IF ok THEN [@ EXCEPT !.client = "held", !.pc = "begin"]
              ELSE [@ EXCEPT !.err = "connect", !.pc = "done"]]
  /\ UNCHANGED <<dbVars, run, clock, libVars>>

\* await client.query('BEGIN')
TxBegin(r, ok) ==
  /\ tx[r].pc = "begin"
  /\ tx' = [tx EXCEPT ![r] =
              IF ok
              THEN [@ EXCEPT !.stmts = Append(@, "BEGIN"),
                             !.pc = FirstStmt(tx[r].kind)]
              ELSE [@ EXCEPT !.stmts = Append(@, "BEGIN"),
                             !.err = "begin", !.pc = "rollback"]]
  /\ UNCHANGED <<dbVars, run, clock, libVars>>

CreditsNotFound == "User credits not found"

\* variant: the result of the UPDATE is not tested for a row
TxUpdateCredits_NoRowCheck(r, ok) ==
  /\ tx[r].pc = "update_credits"
  /\ LET t == tx[r]
         row == credits[t.uid]
     IN IF ~ok
        THEN /\ tx' = [tx EXCEPT ![r] = [@ EXCEPT !.err = "update failed",
                                                  !.pc = "rollback"]]
             /\ UNCHANGED rowLock
        ELSE IF ~row.exists
        THEN /\ tx' = [tx EXCEPT ![r] = [@ EXCEPT !.pc = "insert_usage"]]
             /\ UNCHANGED rowLock
        ELSE /\ RowFree(rowLock, "user_credits", t.uid, 0, r)
             /\ rowLock' = rowLock \cup {CreditLock(t.uid, r)}
             /\ tx' = [tx EXCEPT ![r] =
                         [@ EXCEPT !.pendCredit = UpdateCreditsRow(row, t.n),
                                   !.ret = UpdateCreditsRow(row, t.n).remaining,
                                   !.pc = "insert_usage"]]
  /\ UNCHANGED <<credits, ledger, conversations, messages,
                 searchHistory, qaHistory, run, clock, libVars>>

\* updateTokenUsage: UPDATE user_credits ... RETURNING remaining_tokens,
\* then the check that a row came back
TxUpdateCredits(r, ok) ==
  /\ tx[r].pc = "update_credits"
  /\ LET t == tx[r]
         row == credits[t.uid]
     IN IF ~ok
        THEN /\ tx' = [tx EXCEPT ![r] = [@ EXCEPT !.err = "update failed",
                                                  !.pc = "rollback"]]
             /\ UNCHANGED rowLock
        ELSE IF ~row.exists
        THEN /\ tx' = [tx EXCEPT ![r] =
                         [@ EXCEPT !.err = CreditsNotFound,
                                   !.pc = "rollback"]]
             /\ UNCHANGED rowLock
        ELSE /\ RowFree(rowLock, "user_credits", t.uid, 0, r)
             /\ rowLock' = rowLock \cup {CreditLock(t.uid, r)}
             /\ tx' = [tx EXCEPT ![r] =
                         [@ EXCEPT !.pendCredit = UpdateCreditsRow(row, t.n),
                                   !.ret = UpdateCreditsRow(row, t.n).remaining,
                                   !.pc = "insert_usage"]]
  /\ UNCHANGED <<credits, ledger, conversations, messages,
                 searchHistory, qaHistory, run, clock, libVars>>

\* variant: a failed ledger insert is swallowed and the transaction goes on
\* to COMMIT
TxInsertUsage_Swallow(r, ok) ==
  /\ tx[r].pc = "insert_usage"
  /\ tx' = [tx EXCEPT ![r] =
              IF ok
              THEN [@ EXCEPT !.pendLedger =
                               <<[n |-> tx[r].n, feature |-> tx[r].feature,
                                  uid |-> tx[r].uid, by |-> r]>>,
                             !.pc = "commit"]
              ELSE [@ EXCEPT !.pc = "commit"]]
  /\ UNCHANGED <<dbVars, run, clock, libVars>>

\* updateTokenUsage: INSERT INTO token_usage (user_id, feature_type,
\* tokens_used, created_at)
TxInsertUsage(r, ok) ==
  /\ tx[r].pc = "insert_usage"
  /\ tx' = [tx EXCEPT ![r] =
              IF ok
              THEN [@ EXCEPT !.pendLedger =
                               <<[n |-> tx[r].n, feature |-> tx[r].feature,
                                  uid |-> tx[r].uid, by |-> r]>>,
                             !.pc = "commit"]
              ELSE [@ EXCEPT !.err = "insert failed", !.pc = "rollback"]]
  /\ UNCHANGED <<dbVars, run, clock, libVars>>

\* await client.query('COMMIT'); return result; finally client.release()
\* a failed COMMIT goes to the catch block
TxCommit(r, ok) ==
  /\ tx[r].pc = "commit"
  /\ LET t == tx[r]
     IN IF ok
        THEN /\ credits' = IF t.pendCredit.exists
                           THEN [credits EXCEPT ![t.uid] = t.pendCredit]
                           ELSE credits
             /\ ledger' = ledger \o t.pendLedger
             /\ conversations' = ApplyConvWrites(conversations, t.pendConv)
             /\ messages' = messages \o t.pendMsgs
             /\ rowLock' = rowLock \ LocksOf(rowLock, r)
             /\ tx' = [tx EXCEPT ![r] =
                         [@ EXCEPT !.stmts = Append(@, "COMMIT"),
                                   !.client = "released",
                                   !.released = @ + 1,
                                   !.pc = "done"]]
        ELSE /\ tx' = [tx EXCEPT ![r] =
                         [@ EXCEPT !.stmts = Append(@, "COMMIT"),
                                   !.err = "commit", !.pc = "rollback"]]
             /\ UNCHANGED <<credits, ledger, conversations, messages,
                            rowLock>>
  /\ UNCHANGED <<searchHistory, qaHistory, run, clock, libVars>>

\* variant: release follows ROLLBACK in the catch block instead of standing
\* in a finally block
TxRollback_ReleaseInCatch(r, ok) ==
  /\ tx[r].pc = "rollback"
  /\ rowLock' = rowLock \ LocksOf(rowLock, r)
  /\ tx' = [tx EXCEPT ![r] =
              [@ EXCEPT !.stmts = Append(@, "ROLLBACK"),
                        !.err = IF ok THEN @ ELSE "rollback",
                        !.pendCredit = NoRow, !.pendLedger = <<>>,
                        !.pendConv = <<>>, !.pendMsgs = <<>>, !.retId = 0,
                        !.client = IF ok THEN "released" ELSE @,
                        !.released = IF ok THEN @ + 1 ELSE @,
                        !.pc = "done"]]
  /\ UNCHANGED <<credits, ledger, conversations, messages,
                 searchHistory, qaHistory, run, clock, libVars>>

\* catch: await client.query('ROLLBACK'); throw error; finally release.
\* A ROLLBACK that itself fails throws out of the catch block, so its error
\* replaces the original one.  Either way the transaction's writes are gone.
TxRollback(r, ok) ==
  /\ tx[r].pc = "rollback"
  /\ rowLock' = rowLock \ LocksOf(rowLock, r)
  /\ tx' = [tx EXCEPT ![r] =
              [@ EXCEPT !.stmts = Append(@, "ROLLBACK"),
                        !.err = IF ok THEN @ ELSE "rollback",
                        !.pendCredit = NoRow, !.pendLedger = <<>>,
                        !.pendConv = <<>>, !.pendMsgs = <<>>, !.retId = 0,
                        !.client = "released", !.released = @ + 1,
                        !.pc = "done"]]
  /\ UNCHANGED <<credits, ledger, conversations, messages,
                 searchHistory, qaHistory, run, clock, libVars>>

\* variant: the UPDATE matches on the id alone
UpdateMatches_AnyOwner(convs, id, uid) == id \in ConvIds /\ convs[id].exists

\* WHERE id = $3 AND user_id = $4 finds a row
UpdateMatches(convs, id, uid) ==
  id \in ConvIds /\ convs[id].exists /\ convs[id].owner = uid

\* saveConversation: UPDATE consultant_conversations ... WHERE id = $3 AND
\* user_id = $4 RETURNING id (conversationId given), or INSERT INTO
\* consultant_conversations ... RETURNING id (no conversationId); when the
\* messages array is empty no further statement is issued
TxUpsertConversation(r, ok) ==
  /\ tx[r].pc = "upsert_conversation"
  /\ LET t == tx[r]
         next == IF t.msgs = <<>> THEN "commit" ELSE "insert_messages"
     IN IF ~ok
        THEN /\ tx' = [tx EXCEPT ![r] = [@ EXCEPT !.err = "query",
                                                  !.pc = "rollback"]]
             /\ UNCHANGED rowLock
        ELSE IF t.convId /= 0
        THEN IF UpdateMatches(conversations, t.convId, t.uid)
             THEN /\ RowFree(rowLock, "consultant_conversations", "",
                             t.convId, r)
                  /\ rowLock' = rowLock \cup {ConvLock(t.convId, r)}
                  /\ tx' = [tx EXCEPT ![r] =
                       [@ EXCEPT
                          !.pendConv =
                            <<[id |-> t.convId,
                               row |-> [conversations[t.convId] EXCEPT
                                          !.total = t.totalTokens,
                                          !.model = OrStr(t.modelUsed, @)]]>>,
                          !.retId = t.convId,
                          !.pc = next]]
             ELSE /\ tx' = [tx EXCEPT ![r] =
                       [@ EXCEPT
                          !.err = NotFoundOrDenied,
                          !.pc = "rollback"]]
                  /\ UNCHANGED rowLock
        ELSE /\ \E id \in ConvIds \ UsedConvIds :
                  /\ \A j \in ConvIds \ UsedConvIds : id <= j
                  /\ tx' = [tx EXCEPT ![r] =
                       [@ EXCEPT
                          !.pendConv =
                            <<[id |-> id,
                               row |-> [exists |-> TRUE,
                                        total |-> t.totalTokens,
                                        title |-> OrStr(t.title, DefaultTitle),
                                        owner |-> t.uid,
                                        model |-> OrStr(t.modelUsed,
                                                        DefaultModel)]]>>,
                          !.retId = id,
                          !.pc = next]]
             /\ UNCHANGED rowLock
  /\ UNCHANGED <<credits, ledger, conversations, messages,
                 searchHistory, qaHistory, run, clock, libVars>>

\* variant: the message's token count is not stored
MessageRow_NoTokens(convId, m) ==
  [role |-> m.role, by |-> m.by, conv |-> convId, content |-> m.content,
   docs |-> m.docs, tokens |-> 0, ts |-> m.ts]

\* the row a message of the history becomes: documents_ids || null,
\* tokens_used || 0, created_at = message.timestamp
MessageRow(convId, m) ==
  [role |-> m.role, by |-> m.by, conv |-> convId, content |-> m.content,
   docs |-> m.docs, tokens |-> m.tokens, ts |-> m.ts]

\* saveConversation: INSERT INTO consultant_messages of messages.slice(-2)
TxInsertMessages(r, ok) ==
  /\ tx[r].pc = "insert_messages"
  /\ LET t == tx[r]
         toInsert == LastN(t.msgs, 2)
     IN tx' = [tx EXCEPT ![r] =
                 IF ok
                 THEN [@ EXCEPT !.pendMsgs =
                                  [i \in 1..Len(toInsert) |->
                                     MessageRow(t.retId, toInsert[i])],
                                !.pc = "commit"]
                 ELSE [@ EXCEPT !.err = "query", !.pc = "rollback"]]
  /\ UNCHANGED <<dbVars, run, clock, libVars>>

-----------------------------------------------------------------------------
(* Request handlers: inputs, locals and the gates in front of the pipelines *)

Features == {"search", "qa", "consultant"}

\* request text: whether a string was sent, its length and its length
\* after trim()
NoText == [len |-> 0, str |-> FALSE, trimLen |-> 0]
Text(len, trimLen) == [len |-> len, str |-> TRUE, trimLen |-> trimLen]

\* an optional token count (usageMetadata?.totalTokenCount, tokenCount)
NoUsage == [n |-> 0, has |-> FALSE]
Usage(n) == [n |-> n, has |-> TRUE]

\* x ?? 0 and x || 0 on an optional count
OrZero(u) == IF u.has THEN u.n ELSE 0

\* a response of generateConsultantChatResponse: whether it carries text,
\* the names of its function calls in order, its reported usage
NoResp == [text |-> FALSE, calls |-> <<>>, usage |-> NoUsage]

\* one message of a conversation history
\* (by: the request that built it, 0 for a message of an earlier turn)
Msg(role, content, docs, tokens, ts, by) ==
  [role |-> role, by |-> by, content |-> content, docs |-> docs,
   tokens |-> tokens, ts |-> ts]

\* the previous turn, as the client sends it back in conversationHistory
PrevTurn == <<Msg("user", "earlier question", <<>>, 0, 1, 0),
              Msg("assistant", "earlier answer", <<>>, 0, 2, 0)>>

NoUser == [remaining |-> 0, role |-> ""]

\* content of an error event: the processing-failed message of the catch
\* blocks, and the no-documents message of the retrieval branches
ErrorContent == [failed |-> 0, nodocs |-> 1]

Ev(t, v) == [t |-> t, v |-> v, k |-> "ev"]
Op(t, v) == [t |-> t, v |-> v, k |-> "op"]

IdleRun ==
  [total |-> 0, remaining |-> 0, user |-> NoUser, feature |-> "",
   pc |-> "idle", uid |-> "", convId |-> 0, docs |-> <<>>, text |-> NoText,
   usePro |-> FALSE, hist |-> <<>>, http |-> 0, outcome |-> "none",
   fail |-> "none", gens |-> 0, rounds |-> 0, resp |-> NoResp, ci |-> 0,
   fresp |-> 0, contents |-> <<>>, full |-> <<>>, kwProvider |-> NoUsage,
   kwUsage |-> NoUsage, kwLen |-> 0, embTokens |-> 0, results |-> <<>>,
   ansUsage |-> NoUsage, finalTokens |-> 0, savedId |-> 0,
   savedTemp |-> FALSE, reported |-> 0, log |-> <<>>, closes |-> 0,
   stream |-> "none", undelivered |-> 0]

\* the request arrives: POST body and session
Start(r, feature, u, text, usePro, convId, hist) ==
  /\ run[r].pc = "idle"
  /\ run' = [run EXCEPT ![r] =
               [@ EXCEPT !.pc = "profile", !.feature = feature, !.uid = u,
                         !.text = text, !.usePro = usePro,
                         !.convId = convId, !.hist = hist]]
  /\ UNCHANGED <<dbVars, tx, clock, libVars>>

\* getUserProfile + GET /api/profile: users LEFT JOIN user_credits, with
\* remaining_tokens || 0
ProfileOf(u) ==
  [remaining |-> IF credits[u].exists THEN credits[u].remaining ELSE 0,
   role |-> RoleOf(u)]

\* const profileResponse = await fetch(.../api/profile); if (!ok) return 401
ProfileFetch(r, ok) ==
  /\ run[r].pc = "profile"
  /\ run' = [run EXCEPT ![r] =
               IF ok
               THEN [@ EXCEPT !.user = ProfileOf(run[r].uid), !.pc = "gate"]
               ELSE [@ EXCEPT !.http = 401, !.outcome = "rejected",
                              !.pc = "responded"]]
  /\ UNCHANGED <<dbVars, tx, clock, libVars>>

\* !text || typeof text !== 'string' || text.trim().length === 0
TextMissing(text) == ~text.str \/ text.len = 0 \/ text.trimLen = 0

MaxLenOf(feature) ==
  CASE feature = "search" -> SearchMaxLen
    [] feature = "qa" -> QaMaxLen
    [] OTHER -> ConsultantMaxLen

BaseOf(feature) ==
  CASE feature = "search" -> SearchBase
    [] feature = "qa" -> QaBase
    [] OTHER -> ConsultantBase

\* const estimatedTokens = countTokens(text) + base
EstimatedTokens(feature, text) == countTokens(text.len) + BaseOf(feature)

\* variant: the estimated-token pre-check is left out
GateStatus_NoPrecheck(feature, user, text, usePro) ==
  IF ~hasFeatureAccess(user, feature) THEN 403
  ELSE IF TextMissing(text) THEN 400
  ELSE IF text.len > MaxLenOf(feature) THEN 400
  ELSE IF feature = "consultant" /\ usePro /\ ~canUseProModel(user) THEN 403
  ELSE 200

\* the checks of a POST handler in their order; 200 when all pass
GateStatus(feature, user, text, usePro) ==
  IF ~hasFeatureAccess(user, feature) THEN 403
  ELSE IF TextMissing(text) THEN 400
  ELSE IF text.len > MaxLenOf(feature) THEN 400
  ELSE IF feature = "consultant" /\ usePro /\ ~canUseProModel(user) THEN 403
  ELSE IF ~hasTokens(user, EstimatedTokens(feature, text)) THEN 402
  ELSE 200

\* the checks between the profile fetch and the first capability call
Gate(r) ==
  /\ run[r].pc = "gate"
  /\ LET rr == run[r]
         st == GateStatus(rr.feature, rr.user, rr.text, rr.usePro)
     IN run' = [run EXCEPT ![r] =
                  IF st = 200
                  THEN [@ EXCEPT !.pc = "start"]
                  ELSE [@ EXCEPT !.http = st, !.outcome = "rejected",
                                 !.pc = "responded"]]
  /\ UNCHANGED <<dbVars, tx, clock, libVars>>

-----------------------------------------------------------------------------
(* Consultant pipeline: the tool-calling loop of POST /api/consultant *)

\* length of the keywords argument of a tool call
ToolKeywordsLen == 10

AppendAll(s, t) == s \o t

\* catch (e) { send({type:'error'}) } finally { controller.close() }
StreamCatch(rr, why) ==
  [rr EXCEPT !.log = AppendAll(@, <<Ev("error", ErrorContent.failed),
                                    Op("close", 0)>>),
             !.closes = @ + 1, !.outcome = "failed", !.fail = why,
             !.stream = "closed", !.pc = "closed"]

\* variant: every response overwrites the running total
AccumulateUsage_Overwrite(total, gens, usage) == OrZero(usage)

\* totalTokenUsage = usage ?? 0 for the first response, += for later ones
AccumulateUsage(total, gens, usage) ==
  IF gens = 0 THEN OrZero(usage) ELSE total + OrZero(usage)

\* const finalTokens = useProModel ? totalTokenUsage * 10 : totalTokenUsage
FinalTokens(usePro, total) ==
  IF usePro THEN total * ProMultiplier ELSE total

\* index of the first call at or after i that names the search tool;
\* Len(calls) + 1 when there is none
RECURSIVE NextSearchIndex(_, _)
NextSearchIndex(calls, i) ==
  IF i > Len(calls) THEN Len(calls) + 1
  ELSE IF calls[i] = SearchTool THEN i
  ELSE NextSearchIndex(calls, i + 1)

\* end of the loop body: push the model turn and the function responses,
\* then call the model again
LoopTail(rr) ==
  [rr EXCEPT
     !.log = AppendAll(@, <<Ev("step", 0), Op("call_gen", 0)>>),
     !.contents = AppendAll(@,
        <<[n |-> Len(rr.resp.calls), role |-> "model", kind |-> "calls"],
          [n |-> rr.fresp, role |-> "user", kind |-> "results"]>>),
     !.pc = "gen"]

\* for (const functionCall of functionCallsArray), from index i on, up to
\* the next await
ForLoop(rr, i) ==
  LET j == NextSearchIndex(rr.resp.calls, i)
  IN IF j <= Len(rr.resp.calls)
     THEN [rr EXCEPT !.ci = j,
                     !.log = AppendAll(@, <<Ev("step", 0),
                                            Op("call_embed", 0)>>),
                     !.pc = "embed"]
     ELSE LoopTail(rr)

\* body of while (response.functionCalls), up to the next await
EnterLoopBody(rr) ==
  ForLoop([rr EXCEPT
             !.log = AppendAll(@,
                       (IF rr.resp.text
                        THEN <<Ev("response_chunk", 0)>> ELSE <<>>)
                       \o <<Ev("step", 0)>>),
             !.rounds = @ + 1, !.fresp = 0], 1)

\* variant: an empty final response is billed like an answer
Finish_BillEmpty(rr, now, r) ==
  LET ft == FinalTokens(rr.usePro, rr.total)
  IN [rr EXCEPT
        !.log = AppendAll(@, <<Ev("response_chunk", 0),
                               Op("call_debit", ft)>>),
        !.finalTokens = ft,
        !.full = Append(@, Msg("assistant", "answer", rr.docs, ft, now, r)),
        !.pc = "debit"]

\* after the loop: the final answer, the assistant message and the debit call
\* (now: the value of new Date() for the assistant message)
Finish(rr, now, r) ==
  IF ~rr.resp.text
  THEN StreamCatch([rr EXCEPT !.log = Append(@, Op("err_empty", 0))], "empty")
  ELSE LET ft == FinalTokens(rr.usePro, rr.total)
       IN [rr EXCEPT
             !.log = AppendAll(@, <<Ev("response_chunk", 0),
                                    Op("call_debit", ft)>>),
             !.finalTokens = ft,
             !.full = Append(@, Msg("assistant", "answer", rr.docs, ft,
                                    now, r)),
             !.pc = "debit"]

\* the while condition after a response has arrived
LoopOrFinish(rr, now, r) ==
  IF rr.resp.calls /= <<>> THEN EnterLoopBody(rr) ELSE Finish(rr, now, r)

\* start(controller) up to the first generateConsultantChatResponse call
ConsultantStart(r) ==
  /\ run[r].pc = "start"
  /\ run[r].feature = "consultant"
  /\ LET rr == run[r]
         full == Append(rr.hist, Msg("user", "question", <<>>, 0, clock, r))
     IN run' = [run EXCEPT ![r] =
                  [@ EXCEPT
                     !.full = full,
                     !.contents =
                       [i \in 1..Len(full) |->
                          [n |-> 1,
                           role |-> IF full[i].role = "assistant"
                                    THEN "model" ELSE full[i].role,
                           kind |-> "text"]],
                     !.log = AppendAll(@, <<Ev("step", 0), Ev("step", 0),
                                            Op("call_gen", 0)>>),
                     !.stream = "open",
                     !.pc = "gen"]]
  /\ clock' = clock + 1
  /\ UNCHANGED <<dbVars, tx, libVars>>

\* the debit transaction a handler starts when it reaches updateTokenUsage
DebitCall(t, rr) ==
  IF rr.pc = "debit" THEN NewDebitTx(rr.uid, rr.feature, rr.finalTokens)
  ELSE t

\* generateConsultantChatResponse resolves with resp
ConsultantGenReturns(r, resp) ==
  /\ run[r].pc = "gen"
  /\ LET rr == run[r]
         got == [rr EXCEPT
                   !.resp = resp,
                   !.total = AccumulateUsage(rr.total, rr.gens, resp.usage),
                   !.gens = @ + 1,
                   !.log = Append(@, Op("ret_gen", OrZero(resp.usage)))]
     IN /\ run' = [run EXCEPT ![r] = LoopOrFinish(got, clock, r)]
        /\ tx' = [tx EXCEPT ![r] = DebitCall(@, run'[r])]
        /\ clock' = IF run'[r].pc = "debit" THEN clock + 1 ELSE clock
  /\ UNCHANGED <<dbVars, libVars>>

\* generateConsultantChatResponse throws (or resolves with nothing)
ConsultantGenFails(r) ==
  /\ run[r].pc = "gen"
  /\ run' = [run EXCEPT ![r] =
               StreamCatch([@ EXCEPT !.log = Append(@, Op("err_gen", 0))],
                           "model")]
  /\ UNCHANGED <<dbVars, tx, clock, libVars>>

-----------------------------------------------------------------------------
(* Search and QA pipelines, and the steps the three pipelines share *)

\* the handler's catch block: an error event and close for the streaming
\* handlers, a 500 response for the search handler
Catch(rr, why) ==
  IF rr.feature = "search"
  THEN [rr EXCEPT !.http = 500, !.outcome = "failed", !.fail = why,
                  !.pc = "responded"]
  ELSE StreamCatch(rr, why)

\* up to the generateSearchKeywords call (search and qa)
KeywordsCall(r) ==
  /\ run[r].pc = "start"
  /\ run[r].feature \in {"search", "qa"}
  /\ run' = [run EXCEPT ![r] =
               [@ EXCEPT
                  !.log = AppendAll(@,
                            (IF run[r].feature = "qa"
                             THEN <<Ev("step", 0)>> ELSE <<>>)
                            \o <<Op("call_keywords", 0)>>),
                  !.stream = IF run[r].feature = "qa" THEN "open" ELSE @,
                  !.pc = "keywords"]]
  /\ UNCHANGED <<dbVars, tx, clock, libVars>>

\* generateSearchKeywords resolves: reported usage and the length of
\* keywords.join(' '); then the generateEmbedding call
KeywordsReturn(r, usage, len) ==
  /\ run[r].pc = "keywords"
  /\ run' = [run EXCEPT ![r] =
               [@ EXCEPT
                  !.kwProvider = usage, !.kwUsage = usage, !.kwLen = len,
                  !.log = AppendAll(@,
                            <<Op("ret_keywords", OrZero(usage))>>
                            \o (IF run[r].feature = "qa"
                                THEN <<Ev("step", 0)>> ELSE <<>>)
                            \o <<Op("call_embed", 0)>>),
                  !.pc = "embed"]]
  /\ UNCHANGED <<dbVars, tx, clock, libVars>>

\* generateSearchKeywords throws (provider error or empty text)
KeywordsFail(r) ==
  /\ run[r].pc = "keywords"
  /\ run' = [run EXCEPT ![r] =
               Catch([@ EXCEPT !.log = Append(@, Op("err_keywords", 0))],
                     "model")]
  /\ UNCHANGED <<dbVars, tx, clock, libVars>>

\* generateEmbedding resolves with tokenCount = countTokens(text); then the
\* searchDocuments call
EmbedReturns(r) ==
  /\ run[r].pc = "embed"
  /\ LET rr == run[r]
         tc == IF rr.feature = "consultant"
               THEN countTokens(ToolKeywordsLen) ELSE countTokens(rr.kwLen)
     IN run' = [run EXCEPT ![r] =
                  [@ EXCEPT
                     !.embTokens = tc,
                     !.total = IF rr.feature = "consultant" THEN @ + tc ELSE @,
                     !.log = AppendAll(@,
                               <<Op("ret_embed", tc)>>
                               \o (IF rr.feature = "search"
                                   THEN <<>> ELSE <<Ev("step", 0)>>)
                               \o <<Op("call_search", 0)>>),
                     !.pc = "search"]]
  /\ UNCHANGED <<dbVars, tx, clock, libVars>>

\* generateEmbedding throws
EmbedFails(r) ==
  /\ run[r].pc = "embed"
  /\ run' = [run EXCEPT ![r] =
               Catch([@ EXCEPT !.log = Append(@, Op("err_embed", 0))],
                     "tool")]
  /\ UNCHANGED <<dbVars, tx, clock, libVars>>

\* variant: the keyword call's tokens are left out of the sum
ActualTokens_NoKeywords(rr) ==
  rr.embTokens + (IF rr.feature = "qa" THEN OrZero(rr.ansUsage) ELSE 0)

\* actualTokens of the search and qa handlers
ActualTokens(rr) ==
  OrZero(rr.kwUsage) + rr.embTokens
    + (IF rr.feature = "qa" THEN OrZero(rr.ansUsage) ELSE 0)

\* after searchDocuments in the consultant loop
ConsultantAfterSearch(rr, results) ==
  ForLoop([rr EXCEPT
             !.log = IF results = <<>>
                     THEN Append(@, Ev("error", ErrorContent.nodocs)) ELSE @,
             !.docs = @ \o results,
             !.fresp = @ + 1],
          rr.ci + 1)

\* after searchDocuments in the qa handler: an empty result sends an error
\* event, closes the stream and returns, and the finally block closes again.
\* The second close() throws (the controller is closed or closing), start()
\* rejects and the controller is put in error: nothing happens to a stream
\* whose queue the reader had emptied (the first close() closed it); with
\* queued events still waiting for the reader the first close() only
\* requested the close, so the queue is reset and the stream is errored.
QaAfterSearch(rr, results, queued) ==
  IF results = <<>>
  THEN [rr EXCEPT
          !.log = AppendAll(@, <<Ev("error", ErrorContent.nodocs),
                                 Op("close", 0), Op("close", 0)>>),
          !.closes = @ + 2, !.outcome = "noresults",
          !.stream = IF queued = 0 THEN "closed" ELSE "errored",
          !.undelivered = queued,
          !.pc = "closed"]
  ELSE [rr EXCEPT
          !.results = results,
          !.log = AppendAll(@, <<Ev("step", 0), Op("call_answer", 0)>>),
          !.pc = "answer"]

\* after searchDocuments in the search handler: actualTokens and the debit
SearchAfterSearch(rr, results) ==
  LET got == [rr EXCEPT !.results = results]
  IN [got EXCEPT
        !.finalTokens = ActualTokens(got),
        !.log = Append(@, Op("call_debit", ActualTokens(got))),
        !.pc = "debit"]

\* searchDocuments resolves with the ids of the matching chunks
SearchReturns(r, results) ==
  /\ run[r].pc = "search"
  /\ LET rr == [run[r] EXCEPT
                  !.log = Append(@, Op("ret_search", Len(results)))]
     IN /\ \E queued \in 0..MaxQueued :
             run' = [run EXCEPT ![r] =
                       CASE rr.feature = "consultant" ->
                              ConsultantAfterSearch(rr, results)
                         [] rr.feature = "qa" ->
                              QaAfterSearch(rr, results, queued)
                         [] OTHER -> SearchAfterSearch(rr, results)]
        /\ tx' = [tx EXCEPT ![r] = DebitCall(@, run'[r])]
  /\ UNCHANGED <<dbVars, clock, libVars>>

\* searchDocuments throws
SearchFails(r) ==
  /\ run[r].pc = "search"
  /\ run' = [run EXCEPT ![r] =
               Catch([@ EXCEPT !.log = Append(@, Op("err_search", 0))],
                     "tool")]
  /\ UNCHANGED <<dbVars, tx, clock, libVars>>

\* generateLegalAnswer resolves: answer_chunk, sources, actualTokens, debit
AnswerReturns(r, usage) ==
  /\ run[r].pc = "answer"
  /\ LET got == [run[r] EXCEPT !.ansUsage = usage]
     IN /\ run' = [run EXCEPT ![r] =
                     [got EXCEPT
                        !.finalTokens = ActualTokens(got),
                        !.log = AppendAll(@,
                                  <<Op("ret_answer", OrZero(usage)),
                                    Ev("answer_chunk", 0), Ev("sources", 0),
                                    Op("call_debit", ActualTokens(got))>>),
                        !.pc = "debit"]]
        /\ tx' = [tx EXCEPT ![r] = DebitCall(@, run'[r])]
  /\ UNCHANGED <<dbVars, clock, libVars>>

\* generateLegalAnswer throws (provider error or empty text)
AnswerFails(r) ==
  /\ run[r].pc = "answer"
  /\ run' = [run EXCEPT ![r] =
               Catch([@ EXCEPT !.log = Append(@, Op("err_answer", 0))],
                     "model")]
  /\ UNCHANGED <<dbVars, tx, clock, libVars>>

-----------------------------------------------------------------------------
(* Finalisation: debit, persistence, terminal event *)

\* const conversationTitle = history.length === 2 ? `...` : undefined
ConversationTitle(full) == IF Len(full) = 2 THEN "consult: question" ELSE ""

ModelName(usePro) == IF usePro THEN "pro" ELSE "flash"

\* variant: the terminal event is also sent as soon as the debit has resolved
AfterDebit_ReportEarly(rr, ret) ==
  LET got == [rr EXCEPT !.remaining = ret,
                        !.log = Append(@, Op("ret_debit", rr.finalTokens))]
  IN IF rr.feature = "consultant"
     THEN [got EXCEPT !.log = AppendAll(@, <<Ev("completion", rr.finalTokens),
                                             Op("call_save", 0)>>),
                      !.pc = "save"]
     ELSE [got EXCEPT !.log = AppendAll(@, <<Ev("tokens", rr.finalTokens),
                                             Op("call_history", 0)>>),
                      !.pc = "history"]

\* what the handler does once updateTokenUsage has resolved with ret
AfterDebit(rr, ret) ==
  LET got == [rr EXCEPT !.remaining = ret,
                        !.log = Append(@, Op("ret_debit", rr.finalTokens))]
  IN IF rr.feature = "consultant"
     THEN [got EXCEPT !.log = Append(@, Op("call_save", 0)), !.pc = "save"]
     ELSE [got EXCEPT !.log = Append(@, Op("call_history", 0)),
                      !.pc = "history"]

\* variant: a rejected db.transaction is taken for a resolved one
Resolved_Always(t) == TRUE

\* an awaited db.transaction resolves when no error was thrown, and rejects
\* (throws at the await) otherwise
Resolved(t) == t.err = "none"

\* the await on updateTokenUsage ends: the value of RETURNING on success,
\* the thrown error otherwise
DebitReturns(r) ==
  /\ run[r].pc = "debit"
  /\ tx[r].kind = "debit"
  /\ tx[r].pc = "done"
  /\ LET rr == run[r]
     IN IF Resolved(tx[r])
        THEN /\ run' = [run EXCEPT ![r] = AfterDebit(rr, tx[r].ret)]
             /\ tx' = [tx EXCEPT ![r] =
                         IF rr.feature = "consultant"
                         THEN NewSaveTx(rr.uid, rr.convId, rr.full,
                                        ConversationTitle(rr.full),
                                        rr.finalTokens, ModelName(rr.usePro))
                         ELSE IdleTx]
        ELSE /\ run' = [run EXCEPT ![r] =
                          Catch([rr EXCEPT
                                   !.log = Append(@, Op("err_debit", 0))],
                                "debit")]
             /\ tx' = [tx EXCEPT ![r] = IdleTx]
  /\ UNCHANGED <<dbVars, clock, libVars>>

\* saveSearchHistory / saveQAHistory: one INSERT through db.query, then the
\* success response (search) or the tokens event and close (qa)
HistoryReturns(r, ok) ==
  /\ run[r].pc = "history"
  /\ LET rr == run[r]
         row == [uid |-> rr.uid, by |-> r, docs |-> rr.results,
                 tokens |-> rr.finalTokens]
     IN IF ok
        THEN /\ searchHistory' = IF rr.feature = "search"
                                 THEN Append(searchHistory, row)
                                 ELSE searchHistory
             /\ qaHistory' = IF rr.feature = "qa"
                             THEN Append(qaHistory, row) ELSE qaHistory
             /\ run' = [run EXCEPT ![r] =
                  IF rr.feature = "search"
                  THEN [@ EXCEPT
                          !.log = Append(@, Op("ret_history", 0)),
                          !.http = 200, !.reported = rr.finalTokens,
                          !.outcome = "ok", !.pc = "responded"]
                  ELSE [@ EXCEPT
                          !.log = AppendAll(@,
                                    <<Op("ret_history", 0),
                                      Ev("tokens", rr.finalTokens),
                                      Op("close", 0)>>),
                          !.reported = rr.finalTokens,
                          !.closes = @ + 1, !.stream = "closed",
                          !.outcome = "ok", !.pc = "closed"]]
        ELSE /\ run' = [run EXCEPT ![r] =
                          Catch([rr EXCEPT
                                   !.log = Append(@, Op("err_history", 0))],
                                "history")]
             /\ UNCHANGED <<searchHistory, qaHistory>>
  /\ UNCHANGED <<credits, ledger, rowLock, conversations, messages, tx,
                 clock, libVars>>

\* variant: a failed saveConversation is not caught by the handler
SaveReturns_Rethrow(r) ==
  /\ run[r].pc = "save"
  /\ tx[r].kind = "save"
  /\ tx[r].pc = "done"
  /\ LET rr == run[r]
     IN run' = [run EXCEPT ![r] =
                  IF Resolved(tx[r])
                  THEN [@ EXCEPT
                          !.savedId = tx[r].retId,
                          !.reported = rr.finalTokens,
                          !.log = AppendAll(@,
                                    <<Op("ret_save", 0),
                                      Ev("completion", rr.finalTokens),
                                      Op("close", 0)>>),
                          !.closes = @ + 1, !.stream = "closed",
                          !.outcome = "ok", !.pc = "closed"]
                  ELSE StreamCatch([rr EXCEPT
                                      !.log = Append(@, Op("err_save", 0))],
                                   "save")]
  /\ tx' = [tx EXCEPT ![r] = IdleTx]
  /\ UNCHANGED <<dbVars, clock, libVars>>

\* the await on saveConversation ends: the id on success, the fallback
\* conversationId || 'temp-' + Date.now() on failure; then the completion
\* event and close
SaveReturns(r) ==
  /\ run[r].pc = "save"
  /\ tx[r].kind = "save"
  /\ tx[r].pc = "done"
  /\ LET rr == run[r]
         saved == Resolved(tx[r])
     IN run' = [run EXCEPT ![r] =
                  [@ EXCEPT
                     !.savedId = IF saved THEN tx[r].retId ELSE rr.convId,
                     !.savedTemp = ~saved /\ rr.convId = 0,
                     !.reported = rr.finalTokens,
                     !.log = AppendAll(@,
                               <<Op(IF saved THEN "ret_save" ELSE "err_save",
                                    0),
                                 Ev("completion", rr.finalTokens),
                                 Op("close", 0)>>),
                     !.closes = @ + 1, !.stream = "closed",
                     !.outcome = "ok", !.pc = "closed"]]
  /\ tx' = [tx EXCEPT ![r] = IdleTx]
  /\ UNCHANGED <<dbVars, clock, libVars>>

-----------------------------------------------------------------------------
(* Retrieval: searchDocuments over the documents table *)

\* number of chunk ids of the documents table
NumChunks == 3

Chunks == 1..NumChunks

\* embeddings are unit vectors at multiples of 60 degrees; Cos2 is twice the
\* cosine of the angle between two of them
Cos2(a, b) ==
  LET d == (a - b) % 6
  IN CASE d = 0 -> 2
       [] d \in {1, 5} -> 1
       [] d \in {2, 4} -> -1
       [] OTHER -> -2

\* embedding <=> $1::vector, the cosine distance (times two)
Distance2(a, b) == 2 - Cos2(a, b)

\* a documents row: no row, or an embedding and a metadata jsonb that is
\* NULL or an object with the given keys
DocRows ==
  LET metas == {[null |-> TRUE, keys |-> {}],
                [null |-> FALSE, keys |-> {"law"}],
                [null |-> FALSE, keys |-> {"law", "cur"}]}
  IN {[exists |-> FALSE, embedding |-> 0,
       metadata |-> [null |-> TRUE, keys |-> {}]]}
       \cup {[exists |-> TRUE, embedding |-> e, metadata |-> m] :
               e \in {0, 1, 3}, m \in metas}

\* the rows of FROM documents WHERE metadata @> $3
Matching(docs, filter) ==
  {id \in Chunks : /\ docs[id].exists
                   /\ ~docs[id].metadata.null
                   /\ filter \subseteq docs[id].metadata.keys}

\* every arrangement of the ids in a sequence
Arrangements(ids) ==
  {s \in [1..Cardinality(ids) -> ids] :
     \A i, j \in 1..Cardinality(ids) : i /= j => s[i] /= s[j]}

\* variant: the ORDER BY clause is left out
Ordered_Unsorted(docs, q, ids) == Arrangements(ids)

\* ORDER BY embedding <=> $1::vector: rows at the same distance come in any
\* order
Ordered(docs, q, ids) ==
  {s \in Arrangements(ids) :
     \A i, j \in 1..Len(s) :
       i < j => Distance2(docs[s[i]].embedding, q)
                  <= Distance2(docs[s[j]].embedding, q)}

\* variant: the LIMIT clause is left out
Limit_None(s, n) == s

\* LIMIT $2
Limit(s, n) == SubSeq(s, 1, IF n < Len(s) THEN n ELSE Len(s))

\* the result sets the SELECT of searchDocuments may return, with
\* 1 - (embedding <=> $1::vector) AS similarity (times two)
QueryRows(docs, q, matchCount, filter) ==
  {[i \in 1..Len(Limit(s, matchCount)) |->
      [id |-> Limit(s, matchCount)[i],
       similarity |->
         2 - Distance2(docs[Limit(s, matchCount)[i]].embedding, q)]] :
     s \in Ordered(docs, q, Matching(docs, filter))}

IdleRetrieval ==
  [pc |-> "idle", err |-> "none", results |-> <<>>, embedding |-> 0,
   filter |-> {}, matchCount |-> 0]

\* searchDocuments(embedding, matchCount, filter)
SearchDocumentsCall(q, matchCount, filter) ==
  /\ retrieval.pc = "idle"
  /\ retrieval' = [retrieval EXCEPT !.pc = "query", !.embedding = q,
                                    !.matchCount = matchCount,
                                    !.filter = filter]
  /\ UNCHANGED <<dbVars, tx, run, clock, documents, extraction>>

\* return results
SearchDocumentsReturn ==
  /\ retrieval.pc = "query"
  /\ \E rows \in QueryRows(documents, retrieval.embedding,
                           retrieval.matchCount, retrieval.filter) :
       retrieval' = [retrieval EXCEPT !.pc = "returned", !.results = rows]
  /\ UNCHANGED <<dbVars, tx, run, clock, documents, extraction>>

\* catch (error): db.query rejected
SearchDocumentsThrow ==
  /\ retrieval.pc = "query"
  /\ retrieval' = [retrieval EXCEPT !.pc = "threw",
                                    !.err = "Failed to search documents"]
  /\ UNCHANGED <<dbVars, tx, run, clock, documents, extraction>>

\* the documents table of the request-handler specifications
InitDocuments ==
  [id \in Chunks |->
     [exists |-> TRUE, embedding |-> 0,
      metadata |-> [null |-> FALSE, keys |-> {"law"}]]]

-----------------------------------------------------------------------------
(* Keyword extraction: generateSearchKeywords *)

\* longest response text explored
MaxTextLen == 11

\* .slice(0, 5)
KeywordCap == 5

\* characters of a response text: the line feed, a blank (and a letter)
LF == "LF"
Blank == " "

\* response.text of generateContent: absent, or a string
NoResponseText == [has |-> FALSE, chars |-> <<>>]
ResponseText(chars) == [has |-> TRUE, chars |-> chars]

\* the strings of n characters
StringsOfLen(n) == [1..n -> {LF, Blank, "k"}]

\* .split('\n'): the lines of a string (one empty line for the empty string)
RECURSIVE Split(_)
Split(t) ==
  IF t = <<>> THEN << <<>> >>
  ELSE LET rest == Split(Tail(t))
       IN IF Head(t) = LF THEN << <<>> >> \o rest
          ELSE << <<Head(t)>> \o Head(rest) >> \o Tail(rest)

\* variant: the lines are taken as they are
Trim_None(line) == line

\* keyword.trim(): the line without the blanks at its start and at its end
Trim(line) ==
  LET RECURSIVE TrimStart(_)
      TrimStart(l) ==
        IF l /= <<>> /\ Head(l) = Blank THEN TrimStart(Tail(l)) ELSE l
      RECURSIVE TrimEnd(_)
      TrimEnd(l) ==
        IF l /= <<>> /\ l[Len(l)] = Blank
        THEN TrimEnd(SubSeq(l, 1, Len(l) - 1)) ELSE l
  IN TrimEnd(TrimStart(line))

\* response.text.split('\n').map(keyword => keyword.trim())
\* .filter(keyword => keyword.length > 0).slice(0, 5)
ExtractKeywords(t) ==
  LET lines == Split(t)
      trimmed == [i \in 1..Len(lines) |-> Trim(lines[i])]
      kept == SelectSeq(trimmed, LAMBDA l : Len(l) > 0)
  IN SubSeq(kept, 1, IF Len(kept) < KeywordCap THEN Len(kept)
                     ELSE KeywordCap)

IdleExtraction ==
  [pc |-> "idle", err |-> "none", text |-> NoResponseText, usage |-> NoUsage,
   keywords |-> <<>>, tokenCount |-> NoUsage]

\* generateSearchKeywords(query), up to the await on generateContent
GenerateSearchKeywordsCall ==
  /\ extraction.pc = "idle"
  /\ extraction' = [extraction EXCEPT !.pc = "generate"]
  /\ UNCHANGED <<dbVars, tx, run, clock, documents, retrieval>>

\* generateContent resolves: a falsy response.text throws, and the catch
\* block throws the function's own error; otherwise the keywords and
\* usageMetadata?.totalTokenCount are returned
GenerateContentReturns(text, usage) ==
  /\ extraction.pc = "generate"
  /\ extraction' =
       IF ~text.has \/ text.chars = <<>>
       THEN [extraction EXCEPT !.pc = "threw", !.text = text,
                               !.usage = usage, !.err = "Failed to generate search keywords"]
       ELSE [extraction EXCEPT !.pc = "returned", !.text = text,
                               !.usage = usage,
                               !.keywords = ExtractKeywords(text.chars),
                               !.tokenCount = usage]
  /\ UNCHANGED <<dbVars, tx, run, clock, documents, retrieval>>

\* generateContent rejects
GenerateContentFails ==
  /\ extraction.pc = "generate"
  /\ extraction' = [extraction EXCEPT !.pc = "threw", !.err = "Failed to generate search keywords"]
  /\ UNCHANGED <<dbVars, tx, run, clock, documents, retrieval>>

-----------------------------------------------------------------------------
(* Specifications *)

\* the conversation that exists before the modelled requests
ExistingConv ==
  [exists |-> TRUE, total |-> 0, title |-> "consult: earlier question",
   owner |-> "pay1", model |-> "flash"]

InitConversations ==
  [i \in ConvIds |-> IF i = 1 THEN ExistingConv ELSE NoConv]

\* the two messages of the existing conversation
InitMessages == [i \in 1..2 |-> MessageRow(1, PrevTurn[i])]

\* the clock starts after the timestamps of the existing messages
InitClock == PrevTurn[Len(PrevTurn)].ts + 1

InitDb(rows) ==
  /\ credits \in rows
  /\ ledger = <<>>
  /\ rowLock = {}
  /\ conversations = InitConversations
  /\ messages = InitMessages
  /\ searchHistory = <<>>
  /\ qaHistory = <<>>

\* the user_credits tables explored: balances at and above the consultant
\* estimate, a zero balance, and a principal without a credit row
CreditTables ==
  {[u \in Users |->
      CASE u = "vip1" -> CreditRow(20000)
        [] u = "admin1" -> NoRow
        [] OTHER -> CreditRow(5002)],
   [u \in Users |->
      CASE u = "vip1" -> CreditRow(5002)
        [] u = "admin1" -> CreditRow(0)
        [] OTHER -> CreditRow(20000)]}

Init ==
  /\ InitDb(CreditTables)
  /\ tx = [r \in Runs |-> IdleTx]
  /\ run = [r \in Runs |-> IdleRun]
  /\ clock = InitClock
  /\ documents = InitDocuments
  /\ retrieval = IdleRetrieval
  /\ extraction = IdleExtraction

\* request texts sent to a feature: absent, empty, blank, short, at the
\* length cap and one above it
TextsOf(f) ==
  {NoText, Text(0, 0), Text(3, 0), Text(8, 8),
   Text(MaxLenOf(f), MaxLenOf(f)), Text(MaxLenOf(f) + 1, MaxLenOf(f) + 1)}

\* token counts a provider may report
UsageValues == {NoUsage, Usage(1200)}

Resp(text, calls, usage) == [text |-> text, calls |-> calls, usage |-> usage]

\* responses of the model that end the consultant loop
FinalResponses ==
  {Resp(TRUE, <<>>, Usage(1200)), Resp(TRUE, <<>>, NoUsage),
   Resp(FALSE, <<>>, Usage(1200))}

\* responses of the model that ask for tool calls
ToolResponses ==
  {Resp(TRUE, <<SearchTool>>, Usage(1200)),
   Resp(FALSE, <<SearchTool>>, NoUsage),
   Resp(FALSE, <<OtherTool>>, Usage(1200)),
   Resp(FALSE, <<SearchTool, SearchTool>>, Usage(1200))}

GenResponses == FinalResponses \cup ToolResponses

\* chunk ids searchDocuments may return
ResultSets == {<<>>, <<1, 2>>, <<2, 3>>}

\* conversationId and conversationHistory a client may send
ConvInputs == {<<0, <<>> >>, <<0, PrevTurn>>, <<1, PrevTurn>>}

\* steps of db.transaction around the callback
TxFrame(r) ==
  \E ok \in BOOLEAN :
    \/ TxConnect(r, ok)
    \/ TxBegin(r, ok)
    \/ TxCommit(r, ok)
    \/ TxRollback(r, ok)

\* statements of the updateTokenUsage callback
TxDebitStep(r) ==
  \E ok \in BOOLEAN :
    \/ TxUpdateCredits(r, ok)
    \/ TxInsertUsage(r, ok)

\* statements of the saveConversation callback
TxSaveStep(r) ==
  \E ok \in BOOLEAN :
    \/ TxUpsertConversation(r, ok)
    \/ TxInsertMessages(r, ok)

\* one request at a time, every input and every outcome of every call
StartAny(r) ==
  \E f \in Features, u \in Users, p \in BOOLEAN, c \in ConvInputs :
   \E t \in TextsOf(f) :
    /\ f /= "consultant" => (~p /\ c = <<0, <<>> >>)
    /\ Start(r, f, u, t, p, c[1], c[2])

Next ==
  \/ StartAny(1)
  \/ \E ok \in BOOLEAN : ProfileFetch(1, ok)
  \/ Gate(1)
  \/ ConsultantStart(1)
  \/ \E resp \in GenResponses :
       /\ resp.calls /= <<>> => run[1].rounds < MaxRounds
       /\ ConsultantGenReturns(1, resp)
  \/ ConsultantGenFails(1)
  \/ KeywordsCall(1)
  \/ \E u \in UsageValues, len \in {0, 9} : KeywordsReturn(1, u, len)
  \/ KeywordsFail(1)
  \/ EmbedReturns(1)
  \/ EmbedFails(1)
  \/ \E res \in ResultSets : SearchReturns(1, res)
  \/ SearchFails(1)
  \/ \E u \in UsageValues : AnswerReturns(1, u)
  \/ AnswerFails(1)
  \/ TxFrame(1)
  \/ TxDebitStep(1)
  \/ TxSaveStep(1)
  \/ DebitReturns(1)
  \/ \E ok \in BOOLEAN : HistoryReturns(1, ok)
  \/ SaveReturns(1)

Spec == Init /\ [][Next]_vars

\* Two search requests in flight together, of the same or of different
\* principals; every capability call returns, storage calls may fail.
PairUsers == {"pay1", "vip1"}
PairUsages == {Usage(1200), Usage(3000)}

NextPair ==
  \E r \in Runs :
    \/ \E u \in PairUsers : Start(r, "search", u, Text(8, 8), FALSE, 0, <<>>)
    \/ ProfileFetch(r, TRUE)
    \/ Gate(r)
    \/ KeywordsCall(r)
    \/ \E u \in PairUsages : KeywordsReturn(r, u, 9)
    \/ EmbedReturns(r)
    \/ SearchReturns(r, <<1, 2>>)
    \/ TxFrame(r)
    \/ TxDebitStep(r)
    \/ DebitReturns(r)
    \/ \E ok \in BOOLEAN : HistoryReturns(r, ok)

SpecPair == Init /\ [][NextPair]_vars

\* One consultant request against a model whose every response asks for a
\* tool call; every capability and retrieval call returns.
AlwaysToolResponses == {Resp(TRUE, <<SearchTool>>, Usage(1200))}

NextLoop ==
  \/ Start(1, "consultant", "pay1", Text(8, 8), FALSE, 0, <<>>)
  \/ ProfileFetch(1, TRUE)
  \/ Gate(1)
  \/ ConsultantStart(1)
  \/ \E resp \in AlwaysToolResponses :
       /\ run[1].rounds < LoopBound
       /\ ConsultantGenReturns(1, resp)
  \/ EmbedReturns(1)
  \/ \E res \in {<<>>, <<1, 2>>} : SearchReturns(1, res)

SpecLoop == Init /\ [][NextLoop]_vars

\* saveConversation called directly (as the tests do), with any arguments
\* messages of a directly supplied history, built by caller r
DirectHistory(r, n) ==
  [i \in 1..n |->
     Msg(IF i % 2 = 1 THEN "user" ELSE "assistant", "direct", <<>>, 0, i, r)]

\* await saveConversation(session, conversationId, messages, title,
\* totalTokens, modelUsed)
SaveConversationCall(r, u, convId, msgs, title, totalTokens, modelUsed) ==
  /\ run[r].pc = "idle"
  /\ run' = [run EXCEPT ![r] =
               [@ EXCEPT !.pc = "direct", !.uid = u, !.convId = convId,
                         !.full = msgs]]
  /\ tx' = [tx EXCEPT ![r] =
              NewSaveTx(u, convId, msgs, title, totalTokens, modelUsed)]
  /\ UNCHANGED <<dbVars, clock, libVars>>

\* the awaited saveConversation resolves with the id or rejects
SaveConversationReturn(r) ==
  /\ run[r].pc = "direct"
  /\ tx[r].pc = "done"
  /\ run' = [run EXCEPT ![r] =
               [@ EXCEPT !.savedId = IF Resolved(tx[r]) THEN tx[r].retId ELSE 0,
                         !.outcome = IF Resolved(tx[r]) THEN "ok" ELSE "failed",
                         !.pc = "returned"]]
  /\ UNCHANGED <<dbVars, tx, clock, libVars>>

SaveUsers == {"pay1", "vip1"}
\* ids passed: none, the existing conversation, one that does not exist
SaveConvIds == {0, 1, MaxConvs}
SaveLens == {0, 1, 3}

NextSave ==
  \E r \in Runs :
    \/ \E u \in SaveUsers, c \in SaveConvIds, n \in SaveLens :
         SaveConversationCall(r, u, c, DirectHistory(r, n), "", 7, "")
    \/ TxFrame(r)
    \/ TxSaveStep(r)
    \/ SaveConversationReturn(r)

SpecSave == Init /\ [][NextSave]_vars

\* Two consultant turns, one after the other or overlapping, of one or two
\* principals, on a new conversation, on the existing one or on the one the
\* other turn created; in place of a turn, a direct saveConversation call
\* with a history of fewer than two messages.  The model answers at once, the debit succeeds, the
\* statements of the saveConversation callback may fail.

\* the history a client holds for conversation id: the messages persisted
\* for it so far (a client continues a conversation it has been told of)
HistoryOf(id) ==
  LET rows == SelectSeq(messages, LAMBDA m : m.conv = id)
  IN [i \in 1..Len(rows) |->
        Msg(rows[i].role, rows[i].content, rows[i].docs, rows[i].tokens,
            rows[i].ts, rows[i].by)]

TurnConvIds == {0, 1, 2}
\* lengths of the histories passed by direct calls next to the turns
ShortLens == {0, 1}

NextConv ==
  \E r \in Runs :
    \/ \E u \in SaveUsers, c \in TurnConvIds :
         /\ c /= 0 => conversations[c].exists
         /\ Start(r, "consultant", u, Text(8, 8), FALSE, c, HistoryOf(c))
    \/ ProfileFetch(r, TRUE)
    \/ Gate(r)
    \/ ConsultantStart(r)
    \/ ConsultantGenReturns(r, Resp(TRUE, <<>>, Usage(1200)))
    \/ TxConnect(r, TRUE)
    \/ TxBegin(r, TRUE)
    \/ TxCommit(r, TRUE)
    \/ TxRollback(r, TRUE)
    \/ TxUpdateCredits(r, TRUE)
    \/ TxInsertUsage(r, TRUE)
    \/ TxSaveStep(r)
    \/ DebitReturns(r)
    \/ SaveReturns(r)
    \/ \E n \in ShortLens :
         SaveConversationCall(r, "pay1", 1, DirectHistory(r, n), "", 7, "")
    \/ SaveConversationReturn(r)

SpecConv == Init /\ [][NextConv]_vars

\* searchDocuments called once on every documents table, with two query
\* embeddings, matchCount from 0 to the handlers' 20, and the default filter
\* {} or a one-key filter
InitRetrieve ==
  /\ InitDb({[u \in Users |-> CreditRow(5002)]})
  /\ tx = [r \in Runs |-> IdleTx]
  /\ run = [r \in Runs |-> IdleRun]
  /\ clock = InitClock
  /\ documents \in [Chunks -> DocRows]
  /\ retrieval = IdleRetrieval
  /\ extraction = IdleExtraction

NextRetrieve ==
  \/ \E q \in {0, 1}, n \in {0, 1, 2, 5, 20}, f \in {{}, {"cur"}} :
       SearchDocumentsCall(q, n, f)
  \/ SearchDocumentsReturn
  \/ SearchDocumentsThrow

SpecRetrieve == InitRetrieve /\ [][NextRetrieve]_vars

\* generateSearchKeywords called once, with every response text and usage
InitExtract ==
  /\ InitDb({[u \in Users |-> CreditRow(5002)]})
  /\ tx = [r \in Runs |-> IdleTx]
  /\ run = [r \in Runs |-> IdleRun]
  /\ clock = InitClock
  /\ documents = InitDocuments
  /\ retrieval = IdleRetrieval
  /\ extraction = IdleExtraction

NextExtract ==
  \/ GenerateSearchKeywordsCall
  \/ /\ extraction.pc = "generate"
     /\ \E usage \in UsageValues :
          \/ GenerateContentReturns(NoResponseText, usage)
          \/ \E n \in 0..MaxTextLen : \E chars \in StringsOfLen(n) :
               GenerateContentReturns(ResponseText(chars), usage)
  \/ GenerateContentFails

SpecExtract == InitExtract /\ [][NextExtract]_vars

-----------------------------------------------------------------------------
(* Properties *)

Positions(log, k, t) == {i \in 1..Len(log) : log[i].k = k /\ log[i].t = t}
HasEntry(log, k, t) == Positions(log, k, t) /= {}

LedgerOf(u) == SelectSeq(ledger, LAMBDA e : e.uid = u)
LedgerBy(r) == SelectSeq(ledger, LAMBDA e : e.by = r)

RECURSIVE SumFinalTokens(_)
SumFinalTokens(S) ==
  IF S = {} THEN 0
  ELSE LET r == CHOOSE x \in S : TRUE
       IN run[r].finalTokens + SumFinalTokens(S \ {r})

\* the handler of run r has seen its updateTokenUsage call resolve
Debited(r) == HasEntry(run[r].log, "op", "ret_debit")

\* C1: against a model whose every response asks for a tool call, the
\* consultant loop stops after at most ToolLoopCap iterations: the loop body
\* is never entered more than ToolLoopCap times and the model is never
\* invoked more than ToolLoopCap + 1 times.
C1_ToolLoopCapped ==
  \A r \in Runs :
    /\ run[r].rounds <= ToolLoopCap
    /\ Cardinality(Positions(run[r].log, "op", "call_gen")) <= ToolLoopCap + 1

\* C2: the debit is all-or-nothing: whenever the committed credit rows or
\* the committed ledger change, the change is the commit of one
\* updateTokenUsage transaction, which adds n to used_tokens, takes n from
\* remaining_tokens and appends exactly one ledger row (principal, feature,
\* n); no other step, a failed ledger insert included, changes either.
C2_DebitAllOrNothing ==
  [][ (credits' /= credits \/ ledger' /= ledger) =>
        \E r \in Runs :
          /\ tx[r].kind = "debit"
          /\ tx[r].pc = "commit"
          /\ ledger' = Append(ledger, [n |-> tx[r].n,
                                       feature |-> tx[r].feature,
                                       uid |-> tx[r].uid, by |-> r])
          /\ credits' = [credits EXCEPT
                           ![tx[r].uid] = [@ EXCEPT !.used = @ + tx[r].n,
                                                    !.remaining = @ - tx[r].n]]
    ]_vars

\* C2 witness: a ledger insert failed after the credit update had succeeded,
\* the transaction has ended, and neither the credit row nor the ledger
\* shows the debit.
C2_Witness ==
  \E r \in Runs :
    /\ tx[r].kind = "debit"
    /\ tx[r].pc = "done"
    /\ tx[r].err = "insert failed"
    /\ tx[r].n > 0
    /\ credits[tx[r].uid].used = 0
    /\ credits[tx[r].uid].remaining = credits[tx[r].uid].total
    /\ ledger = <<>>

\* C3: when the two requests in flight are of the same principal and both
\* debits have returned, remaining_tokens is the initial balance minus both
\* amounts, used_tokens is their sum, the principal has exactly two ledger
\* rows, and the value returned to each request already counts every debit
\* committed before it (the later one returned the final balance).
C3_NoLostUpdate ==
  \A u \in Users :
    (\A r \in Runs : run[r].uid = u /\ Debited(r)) =>
      /\ credits[u].remaining = credits[u].total - SumFinalTokens(Runs)
      /\ credits[u].used = SumFinalTokens(Runs)
      /\ Len(LedgerOf(u)) = Cardinality(Runs)
      /\ \E r \in Runs : run[r].remaining = credits[u].remaining
      /\ \A r \in Runs :
           run[r].remaining <= credits[u].total - run[r].finalTokens

\* C3 witness: both requests are of one principal, both debits returned,
\* with different amounts, and one of them returned the balance left after
\* the other.
C3_Witness ==
  \E a, b \in Runs :
    /\ a /= b
    /\ run[a].uid = run[b].uid
    /\ Debited(a) /\ Debited(b)
    /\ run[a].finalTokens /= run[b].finalTokens
    /\ run[a].remaining = credits[run[a].uid].total - run[a].finalTokens
    /\ run[b].remaining = run[a].remaining - run[b].finalTokens
    /\ credits[run[a].uid].remaining = run[b].remaining

\* C4: remaining_tokens of a principal never increases, and the commit of a
\* debit of n tokens leaves remaining_after = remaining_before - n, which is
\* the value the debit returns.
C4_BalanceMonotone ==
  [][ /\ \A u \in Users : credits'[u].remaining <= credits[u].remaining
      /\ \A r \in Runs :
           (tx[r].kind = "debit" /\ tx[r].pc = "commit"
              /\ tx'[r].pc = "done" /\ tx'[r].err = "none") =>
             /\ credits'[tx[r].uid].remaining
                  = credits[tx[r].uid].remaining - tx[r].n
             /\ tx'[r].ret = credits'[tx[r].uid].remaining
    ]_vars

\* C4 witness: two debits on one principal have been committed one after
\* the other and the second transaction hands back the balance after both.
C4_Witness ==
  \E r \in Runs :
    /\ tx[r].kind = "debit" /\ tx[r].pc = "done" /\ tx[r].err = "none"
    /\ Len(LedgerOf(tx[r].uid)) = 2
    /\ tx[r].n > 0
    /\ tx[r].ret = credits[tx[r].uid].remaining
    /\ tx[r].ret = credits[tx[r].uid].total - credits[tx[r].uid].used

\* C5: for a principal without the unlimited role the committed debits never
\* make remaining = total - used negative.
C5_NonNegativeBalance ==
  \A u \in Users :
    RoleOf(u) /= "admin" =>
      /\ credits[u].total - credits[u].used >= 0
      /\ credits[u].remaining >= 0

ModelCallOps == {"call_gen", "call_embed", "call_keywords", "call_answer"}
StorageCallOps == {"call_debit", "call_history", "call_save"}
ErrOps == {"err_gen", "err_embed", "err_search", "err_keywords", "err_answer"}

OpsIn(log, ts) == {i \in 1..Len(log) : log[i].k = "op" /\ log[i].t \in ts}

RECURSIVE LogSum(_, _)
LogSum(log, t) ==
  IF log = <<>> THEN 0
  ELSE (IF Head(log).k = "op" /\ Head(log).t = t THEN Head(log).v ELSE 0)
         + LogSum(Tail(log), t)

\* run r has neither debited nor written a history or conversation record,
\* nor started to
WroteNothing(r) ==
  /\ OpsIn(run[r].log, StorageCallOps) = {}
  /\ tx[r] = IdleTx
  /\ LedgerBy(r) = <<>>
  /\ \A i \in 1..Len(searchHistory) : searchHistory[i].by /= r
  /\ \A i \in 1..Len(qaHistory) : qaHistory[i].by /= r

\* the gates as the claim words them
C6_Cap(f) == IF f = "search" THEN 1000 ELSE 2000
C6_Base(f) == IF f = "search" THEN 1000 ELSE IF f = "qa" THEN 10000 ELSE 5000
C6_BadRequest(rr) ==
  \/ ~rr.text.str
  \/ rr.text.trimLen = 0
  \/ rr.text.len > C6_Cap(rr.feature)
  \/ rr.feature = "consultant" /\ rr.user.role = "free"
  \/ /\ rr.user.role /= "admin"
     /\ rr.user.remaining < countTokens(rr.text.len) + C6_Base(rr.feature)

\* C6: a request with empty or blank text, text above the cap of its
\* feature, a principal without access to the feature, or a failing
\* estimated-token pre-check is rejected once the gates have run, and in
\* that run no model call is issued, nothing is debited and nothing written.
C6_FailFast ==
  \A r \in Runs :
    (run[r].pc \notin {"idle", "profile"} /\ C6_BadRequest(run[r])) =>
      /\ run[r].pc = "gate" \/ run[r].outcome = "rejected"
      /\ OpsIn(run[r].log, ModelCallOps) = {}
      /\ WroteNothing(r)

\* C6 witness: a qa request with valid text of a principal whose balance is
\* below the estimate has been rejected with 402.
C6_Witness ==
  \E r \in Runs :
    /\ run[r].feature = "qa"
    /\ run[r].outcome = "rejected"
    /\ run[r].http = 402
    /\ run[r].text.trimLen > 0
    /\ run[r].user.remaining > 0

\* a model call or a tool execution of the run failed, or its final response
\* came back empty
C7_Failures(rr) ==
  OpsIn(rr.log, ErrOps)
    \cup (IF rr.feature = "consultant" /\ rr.gens >= 1
             /\ rr.resp.calls = <<>> /\ ~rr.resp.text
          THEN {i \in Positions(rr.log, "op", "ret_gen") :
                  \A j \in Positions(rr.log, "op", "ret_gen") : j <= i}
          ELSE {})

\* C7: in a streaming run (qa, consultant) in which a model call or a tool
\* execution failed, or whose final response was empty, nothing is debited
\* and no history or conversation is written, and no model call is issued
\* after the failure.
C7_FailureSkipsBilling ==
  \A r \in Runs :
    (run[r].feature \in {"qa", "consultant"} /\ C7_Failures(run[r]) /= {}) =>
      /\ WroteNothing(r)
      /\ \A i \in C7_Failures(run[r]) :
           \A j \in OpsIn(run[r].log, ModelCallOps) : j < i

\* C7 witness: a consultant run whose first model call was answered and
\* counted, and whose retrieval then failed, has ended.
C7_Witness ==
  \E r \in Runs :
    /\ run[r].feature = "consultant"
    /\ HasEntry(run[r].log, "op", "err_search")
    /\ run[r].total > 0
    /\ run[r].pc = "closed"

\* C8: in a consultant run every error event is the last event, is emitted
\* only by a run that failed, and is followed by the close of the stream and
\* nothing else (so there is at most one).
C8_SingleTerminalError ==
  \A r \in Runs :
    run[r].feature = "consultant" =>
      \A i \in Positions(run[r].log, "ev", "error") :
        /\ run[r].outcome = "failed"
        /\ Len(run[r].log) = i + 1
        /\ run[r].log[i + 1] = Op("close", 0)

\* C9: the tokens_used of a consultant completion event is the sum of the
\* usage reported by all generation calls of the run (one more than the
\* tool-call iterations) and of the embedding cost of every executed tool
\* call, times 10 with the pro model and times 1 otherwise.
C9_TurnCost ==
  \A r \in Runs :
    run[r].feature = "consultant" =>
      \A i \in Positions(run[r].log, "ev", "completion") :
        /\ run[r].log[i].v =
             (LogSum(run[r].log, "ret_gen") + LogSum(run[r].log, "ret_embed"))
               * (IF run[r].usePro THEN 10 ELSE 1)
        /\ Cardinality(Positions(run[r].log, "op", "ret_gen"))
             = run[r].rounds + 1

\* C9 witness: a pro-model run with one search cycle has completed; its
\* cost is made of two generation usages and one embedding cost.
C9_Witness ==
  \E r \in Runs :
    /\ run[r].feature = "consultant"
    /\ run[r].usePro
    /\ run[r].outcome = "ok"
    /\ Cardinality(Positions(run[r].log, "op", "ret_gen")) = 2
    /\ Cardinality(Positions(run[r].log, "op", "ret_embed")) = 1
    /\ LogSum(run[r].log, "ret_gen") = 2400
    /\ run[r].reported = 10 * (2400 + run[r].embTokens)

\* C10: in a consultant run the debit returns before saveConversation is
\* called, which is before the completion event; a completion event is only
\* emitted by a run whose debit is committed; a run whose debit failed calls
\* no save, persists no conversation or message, and ends with an error
\* event.
C10_FinalisationOrder ==
  \A r \in Runs :
    run[r].feature = "consultant" =>
      LET log == run[r].log
      IN /\ \A c \in Positions(log, "ev", "completion") :
              /\ \E d \in Positions(log, "op", "ret_debit") :
                   \E s \in Positions(log, "op", "call_save") : d < s /\ s < c
              /\ Len(LedgerBy(r)) = 1
              /\ LedgerBy(r)[1].n = log[c].v
         /\ \A s \in Positions(log, "op", "call_save") :
              \E d \in Positions(log, "op", "ret_debit") : d < s
         /\ HasEntry(log, "op", "ret_debit") => Len(LedgerBy(r)) = 1
         /\ HasEntry(log, "op", "err_debit") =>
              /\ LedgerBy(r) = <<>>
              /\ ~HasEntry(log, "op", "call_save")
              /\ ~HasEntry(log, "ev", "completion")
              /\ messages = InitMessages
              /\ conversations = InitConversations
              /\ Len(log) >= 2
              /\ log[Len(log) - 1] = Ev("error", 0)
              /\ log[Len(log)] = Op("close", 0)

\* C10 witness: a consultant run has debited, saved a new conversation with
\* its two messages, and emitted the completion event.
C10_Witness ==
  \E r \in Runs :
    /\ run[r].feature = "consultant"
    /\ HasEntry(run[r].log, "ev", "completion")
    /\ HasEntry(run[r].log, "op", "ret_save")
    /\ Len(LedgerBy(r)) = 1
    /\ Len(messages) = Len(InitMessages) + 2

\* errors raised by the database driver for a statement that did not execute
DbFailures == {"connect", "begin", "query", "update failed", "insert failed",
               "commit", "rollback"}

\* the conversation a saveConversation call names is missing or is owned by
\* another principal
C11_Foreign(t) ==
  /\ t.kind = "save"
  /\ t.convId /= 0
  /\ \/ t.convId \notin ConvIds
     \/ ~conversations[t.convId].exists
     \/ conversations[t.convId].owner /= t.uid

\* C11: when the UPDATE of a saveConversation call with a conversation id
\* finds the conversation missing or owned by another principal, the call
\* goes to ROLLBACK with the not-found-or-denied error and rejects (with that
\* error, or with the driver's error when the UPDATE or the ROLLBACK itself
\* did not execute); a step changes conversation rows or messages only as
\* the COMMIT of a call whose id check passed, and only for the row that call
\* named; and every persisted message lies in an existing conversation and
\* was appended by a call of that conversation's owner.
C11_Ownership ==
  [][ /\ \A r \in Runs :
           (C11_Foreign(tx[r]) /\ tx[r].pc = "upsert_conversation"
              /\ tx'[r] /= tx[r]) =>
             /\ tx'[r].pc = "rollback"
             /\ tx'[r].err \in {NotFoundOrDenied, "query"}
             /\ tx'[r].pendConv = <<>> /\ tx'[r].pendMsgs = <<>>
      /\ \A r \in Runs :
           (tx[r].err = NotFoundOrDenied /\ tx'[r] /= tx[r]) =>
             /\ tx'[r].pc = "done"
             /\ tx'[r].err \in {NotFoundOrDenied, "rollback"}
             /\ conversations' = conversations
             /\ messages' = messages
      /\ (conversations' /= conversations \/ messages' /= messages) =>
           \E r \in Runs :
             /\ tx[r].kind = "save" /\ tx[r].pc = "commit"
             /\ tx'[r].err = "none"
             /\ conversations'[tx[r].retId].owner = tx[r].uid
             /\ \A i \in ConvIds \ {tx[r].retId} :
                  conversations'[i] = conversations[i]
             /\ SubSeq(messages', 1, Len(messages)) = messages
             /\ \A i \in (Len(messages) + 1)..Len(messages') :
                  messages'[i].conv = tx[r].retId /\ messages'[i].by = r
      /\ \A i \in 1..Len(messages') :
           /\ conversations'[messages'[i].conv].exists
           /\ messages'[i].by /= 0 =>
                run'[messages'[i].by].uid
                  = conversations'[messages'[i].conv].owner
    ]_vars

\* C11 witness: a call of a principal that names the conversation of
\* another principal, with messages to append, has been rejected with the
\* not-found-or-denied error, and that conversation holds what it held.
C11_Witness ==
  \E r \in Runs :
    /\ tx[r].kind = "save" /\ tx[r].pc = "done"
    /\ tx[r].err = NotFoundOrDenied
    /\ tx[r].convId = 1 /\ tx[r].uid /= conversations[1].owner
    /\ Len(tx[r].msgs) > 0
    /\ HistoryOf(1) = PrevTurn
    /\ conversations[1] = ExistingConv

\* the persisted messages of conversation c, in insertion order
MessagesOf(c) == SelectSeq(messages, LAMBDA m : m.conv = c)

\* the consultant turns whose saveConversation committed on conversation c
SavedTurns(c) ==
  {r \in Runs :
     /\ run[r].feature = "consultant"
     /\ \/ /\ run[r].pc = "save" /\ tx[r].kind = "save" /\ tx[r].pc = "done"
           /\ tx[r].err = "none" /\ tx[r].retId = c
        \/ HasEntry(run[r].log, "op", "ret_save") /\ run[r].savedId = c}

\* turns persisted in conversation c before the modelled requests
C12_EarlierTurns(c) == IF c = 1 THEN 1 ELSE 0

\* C12: the COMMIT of a saveConversation call with a history of n messages
\* appends exactly the last min(2, n) messages of that history, in their
\* order, to the conversation the call resolved to, and leaves every earlier
\* row in place (nothing is appended for an empty history); no other step
\* changes the messages; and a conversation holds exactly two messages per
\* consultant turn saved on it.
C12_IncrementalAppend ==
  [][ /\ \A r \in Runs :
           (tx[r].kind = "save" /\ tx[r].pc = "commit"
              /\ tx'[r].pc = "done" /\ tx'[r].err = "none") =>
             LET n == Len(tx[r].msgs)
                 k == IF n < 2 THEN n ELSE 2
                 old == Len(messages)
             IN /\ Len(messages') = old + k
                /\ SubSeq(messages', 1, old) = messages
                /\ \A i \in 1..k :
                     LET row == messages'[old + i]
                         m == tx[r].msgs[n - k + i]
                     IN /\ row.conv = tx[r].retId
                        /\ row.role = m.role /\ row.content = m.content
                        /\ row.docs = m.docs /\ row.tokens = m.tokens
                        /\ row.ts = m.ts /\ row.by = m.by
      /\ messages' /= messages =>
           \E r \in Runs : tx[r].kind = "save" /\ tx[r].pc = "commit"
                           /\ tx'[r].err = "none"
      /\ \A c \in ConvIds :
           Len(SelectSeq(messages', LAMBDA m : m.conv = c
                                               /\ m.content /= "direct"))
             = 2 * (C12_EarlierTurns(c) + Cardinality(SavedTurns(c)'))
    ]_vars

\* C12 witness: two turns have been saved on the conversation the first of
\* them created, the second with a history of four messages, and the
\* conversation holds four messages.
C12_Witness ==
  \E c \in ConvIds \ {1} :
    /\ Cardinality(SavedTurns(c)) = 2
    /\ Len(MessagesOf(c)) = 4
    /\ \E r \in SavedTurns(c) : Len(run[r].full) = 4

\* only consultant turns have run: no direct saveConversation call was made
OnlyTurns == \A r \in Runs : run[r].pc \notin {"direct", "returned"}

\* the title of every conversation is the one it was created with
C13_TitleStable ==
  \A c \in ConvIds :
    conversations[c].exists =>
      conversations[c].title
        = (IF InitConversations[c].exists
           THEN InitConversations[c].title
           ELSE ConversationTitle(<<1, 2>>))

\* C13: after any sequence of consultant turns saved on one conversation,
\* the stored total_tokens of the conversation is the sum of the token costs
\* of all its turns, and its title is the one it was created with.
C13_RunningTotal ==
  OnlyTurns =>
    /\ C13_TitleStable
    /\ \A c \in ConvIds :
         conversations[c].exists =>
           conversations[c].total
             = InitConversations[c].total + SumFinalTokens(SavedTurns(c))

\* rows in ascending order of created_at
RECURSIVE SortByTs(_)
SortByTs(rows) ==
  IF rows = <<>> THEN <<>>
  ELSE LET i == CHOOSE x \in 1..Len(rows) :
                  \A y \in 1..Len(rows) : rows[x].ts <= rows[y].ts
       IN <<rows[i]>>
            \o SortByTs([j \in 1..(Len(rows) - 1) |->
                           IF j < i THEN rows[j] ELSE rows[j + 1]])

\* C14: reading the persisted messages of a conversation in the order of
\* their timestamps yields, turn after turn, the user message of a turn
\* immediately followed by the assistant message of the same turn.
C14_ReplayOrder ==
  OnlyTurns =>
    \A c \in ConvIds :
      LET replay == SortByTs(MessagesOf(c))
      IN \A i \in 1..Len(replay) :
           i % 2 = 1 =>
             /\ replay[i].role = "user"
             /\ i + 1 <= Len(replay)
             /\ replay[i + 1].role = "assistant"
             /\ replay[i + 1].by = replay[i].by

\* C15: in a consultant run whose debit returned and whose saveConversation
\* failed, the stream ends with a completion event and no error event of the
\* catch block; the conversation id it carries is the id the caller sent or,
\* when none was sent, a temporary placeholder; and the debit stays
\* committed.
C15_SaveFallback ==
  \A r \in Runs :
    (run[r].feature = "consultant"
       /\ HasEntry(run[r].log, "op", "err_save")) =>
      LET log == run[r].log
          n == Len(log)
      IN /\ HasEntry(log, "op", "ret_debit")
         /\ n >= 3
         /\ log[n - 2] = Op("err_save", 0)
         /\ log[n - 1] = Ev("completion", run[r].finalTokens)
         /\ log[n] = Op("close", 0)
         /\ \A i \in Positions(log, "ev", "error") :
              log[i].v /= ErrorContent.failed
         /\ run[r].outcome = "ok"
         /\ run[r].savedTemp = (run[r].convId = 0)
         /\ run[r].savedId = run[r].convId
         /\ Len(LedgerBy(r)) = 1
         /\ LedgerBy(r)[1].n = run[r].finalTokens
         /\ credits[run[r].uid].used = run[r].finalTokens
         /\ credits[run[r].uid].remaining
              = credits[run[r].uid].total - run[r].finalTokens

\* C15 witness: a turn without a conversation id was debited a positive
\* amount, its save failed, and it ended with a completion event carrying a
\* placeholder id.
C15_Witness ==
  \E r \in Runs :
    /\ run[r].feature = "consultant"
    /\ HasEntry(run[r].log, "op", "err_save")
    /\ HasEntry(run[r].log, "ev", "completion")
    /\ run[r].convId = 0 /\ run[r].savedTemp
    /\ run[r].finalTokens > 0
    /\ Len(LedgerBy(r)) = 1

\* the events a run has sent, and those of them that reach the caller
Events(log) == SelectSeq(log, LAMBDA e : e.k = "ev")
Received(rr) ==
  SubSeq(Events(rr.log), 1, Len(Events(rr.log)) - rr.undelivered)

\* C16: in a qa run whose retrieval returned no chunk, the stream carries
\* exactly one error event, with the no-documents content; generateLegalAnswer
\* is never called; no answer_chunk, sources or tokens event is emitted;
\* nothing is debited and no history is written; and the stream is closed.
C16_QaNoResults ==
  \A r \in Runs :
    (run[r].feature = "qa"
       /\ \E i \in Positions(run[r].log, "op", "ret_search") :
            run[r].log[i].v = 0) =>
      LET log == run[r].log
          got == Received(run[r])
      IN /\ Cardinality(Positions(got, "ev", "error")) = 1
         /\ \A i \in Positions(got, "ev", "error") :
              got[i].v = ErrorContent.nodocs
         /\ ~HasEntry(log, "op", "call_answer")
         /\ ~HasEntry(log, "ev", "answer_chunk")
         /\ ~HasEntry(log, "ev", "sources")
         /\ ~HasEntry(log, "ev", "tokens")
         /\ WroteNothing(r)
         /\ run[r].pc = "closed"
         /\ run[r].stream = "closed"

\* the run has fetched its profile and gone through the gates
C17_Gated(rr) == rr.pc \notin {"idle", "profile", "gate"} /\ rr.user.role /= ""

\* C17: a consultant request of a principal with role free is rejected with
\* 403 whatever else it carries, with no model call, debit or write; a
\* request of role pay, vip or admin to the consultant, and a request of any
\* role to search or qa, is never rejected by the feature gate (a 403 is then
\* the pro-model gate's), and goes on to its pipeline when its text and
\* balance pass the other gates.
C17_RoleGate ==
  \A r \in Runs :
    C17_Gated(run[r]) =>
      LET rr == run[r]
      IN IF rr.feature = "consultant" /\ rr.user.role = "free"
         THEN /\ rr.outcome = "rejected" /\ rr.http = 403
              /\ OpsIn(rr.log, ModelCallOps) = {}
              /\ WroteNothing(r)
         ELSE /\ rr.user.role \in {"free", "pay", "vip", "admin"}
              /\ rr.http = 403 =>
                   rr.feature = "consultant" /\ rr.usePro
                     /\ rr.user.role /= "vip"
              /\ (/\ rr.text.str /\ rr.text.trimLen > 0
                  /\ rr.text.len <= C6_Cap(rr.feature)
                  /\ ~(rr.usePro /\ rr.user.role /= "vip")
                  /\ \/ rr.user.role = "admin"
                     \/ rr.user.remaining
                          >= countTokens(rr.text.len) + C6_Base(rr.feature))
                   => rr.outcome /= "rejected"

\* C17 witness: a consultant request of a free principal with valid text and
\* a balance that covers the estimate has been rejected with 403.
C17_Witness ==
  \E r \in Runs :
    /\ run[r].feature = "consultant"
    /\ run[r].user.role = "free"
    /\ run[r].outcome = "rejected" /\ run[r].http = 403
    /\ run[r].text.trimLen > 0 /\ run[r].text.len <= 2000
    /\ run[r].user.remaining >= countTokens(run[r].text.len) + 5000

C19_Extends(s, t) == Len(s) <= Len(t) /\ SubSeq(t, 1, Len(s)) = s

\* the final chunk and the terminal event of a streaming handler
C19_Chunk(rr) ==
  IF rr.feature = "qa" THEN "answer_chunk" ELSE "response_chunk"
C19_Terminal(rr) == IF rr.feature = "qa" THEN "tokens" ELSE "completion"

\* C19: a step of a request only appends to what it has emitted, so the
\* caller receives the events in the order they were produced; and in a
\* streaming run that ended successfully every step event comes before the
\* last answer/response chunk, the tokens/completion event occurs exactly
\* once, after that chunk, as the last event, and every event was delivered
\* before the stream closed.
C19_EventOrder ==
  [][ \A r \in Runs :
        /\ C19_Extends(run[r].log, run'[r].log)
        /\ C19_Extends(Received(run[r]), Events(run'[r].log))
        /\ (run'[r].outcome = "ok" /\ run'[r].feature \in {"qa", "consultant"})
             => LET ev == Events(run'[r].log)
                    chunks == Positions(ev, "ev", C19_Chunk(run'[r]))
                    terms == Positions(ev, "ev", C19_Terminal(run'[r]))
                    steps == Positions(ev, "ev", "step")
                IN /\ chunks /= {}
                   /\ Cardinality(terms) = 1
                   /\ steps /= {}
                   /\ \A c \in chunks :
                        (\A d \in chunks : d <= c) =>
                          /\ \A i \in steps : i < c
                          /\ \A t \in terms : c < t
                   /\ terms = {Len(ev)}
                   /\ Received(run'[r]) = ev
                   /\ run'[r].stream = "closed"
    ]_vars

\* C19 witness: a consultant run with a retrieval round that sent an
\* intermediate chunk and step events inside the loop ended successfully.
C19_Witness ==
  \E r \in Runs :
    /\ run[r].feature = "consultant" /\ run[r].outcome = "ok"
    /\ run[r].rounds > 0
    /\ Cardinality(Positions(run[r].log, "ev", "step")) > 2
    /\ Cardinality(Positions(run[r].log, "ev", "response_chunk")) > 1
    /\ HasEntry(run[r].log, "ev", "completion")

\* the errors db.transaction's own statements raise; any other error comes
\* from the callback
C20_FrameErrors == {"connect", "begin", "commit", "rollback"}

\* C20: on a db.transaction call that acquired a client, BEGIN is the first
\* statement; COMMIT is issued only after the callback ran to its end without
\* an error, and an error of BEGIN, of the callback or of COMMIT leads
\* straight to ROLLBACK; a call that resolved issued BEGIN and COMMIT and no
\* ROLLBACK, a call that rejected ends with exactly one ROLLBACK; and the
\* client is released exactly once when the call is over and not before,
\* also when BEGIN, COMMIT or ROLLBACK failed.  A call whose connect failed
\* has no client, no statement and no release.
C20_Transaction ==
  \A r \in Runs :
    LET t == tx[r]
        n == Len(t.stmts)
        has(q) == \E i \in 1..n : t.stmts[i] = q
        count(q) == Cardinality({i \in 1..n : t.stmts[i] = q})
    IN t.kind /= "none" =>
         /\ t.client = "none" =>
              /\ n = 0 /\ t.released = 0
              /\ t.pc \in {"connect", "done"}
              /\ t.pc = "done" => t.err = "connect"
         /\ n > 0 => t.stmts[1] = "BEGIN" /\ count("BEGIN") = 1
         /\ t.pc \notin {"connect", "begin"} /\ t.client /= "none" => n > 0
         /\ t.pc = "commit" => t.err = "none" /\ ~has("COMMIT")
         /\ count("COMMIT") <= 1 /\ count("ROLLBACK") <= 1
         /\ has("COMMIT") =>
              /\ t.pc \in {"rollback", "done"}
              /\ t.pc = "rollback" => t.err = "commit"
         /\ t.err \notin C20_FrameErrors \cup {"none"} => ~has("COMMIT")
         /\ t.client = "held" =>
              /\ t.released = 0 /\ t.pc /= "done"
              /\ ~has("ROLLBACK")
              /\ t.err /= "none" <=> t.pc = "rollback"
         /\ t.pc /= "done" => t.released = 0 /\ t.client /= "released"
         /\ t.pc = "done" /\ t.client /= "none" =>
              /\ t.client = "released" /\ t.released = 1
              /\ IF t.err = "none"
                 THEN t.stmts = <<"BEGIN", "COMMIT">>
                 ELSE /\ t.stmts[n] = "ROLLBACK"
                      /\ count("ROLLBACK") = 1

\* C20 witness: a call whose COMMIT failed and whose ROLLBACK failed too is
\* over, with its client released once.
C20_Witness ==
  \E r \in Runs :
    /\ tx[r].pc = "done"
    /\ tx[r].stmts = <<"BEGIN", "COMMIT", "ROLLBACK">>
    /\ tx[r].err = "rollback"
    /\ tx[r].released = 1

\* C21: when the callback of a db.transaction call threw an error and the
\* call then ends, also when the ROLLBACK failed, the call rejects with the
\* callback's error and the client is released.
C21_OriginalErrorPreserved ==
  [][ \A r \in Runs :
        (tx[r].pc = "rollback" /\ tx[r].err \notin C20_FrameErrors \cup {"none"}
           /\ tx'[r].pc = "done") =>
          /\ tx'[r].err = tx[r].err
          /\ tx'[r].released = 1
    ]_vars

\* the ids that occur in a sequence of chunk ids
C22_IdsOf(seq) == {seq[i] : i \in 1..Len(seq)}

\* C22: the documents_ids of every persisted assistant message of a turn
\* holds each chunk id that a retrieval of the turn returned, each id once,
\* and is empty when the turn retrieved nothing.
C22_ReferencedChunks ==
  \A i \in 1..Len(messages) :
    LET m == messages[i]
    IN (m.role = "assistant" /\ m.by \in Runs
          /\ run[m.by].feature = "consultant") =>
         /\ C22_IdsOf(m.docs) = C22_IdsOf(run[m.by].docs)
         /\ Cardinality(C22_IdsOf(m.docs)) = Len(m.docs)
         /\ ~HasEntry(run[m.by].log, "op", "ret_search") => m.docs = <<>>

\* the distance of a returned row's chunk from the query of the call
C23_DistanceOf(row) ==
  Distance2(documents[row.id].embedding, retrieval.embedding)

\* C23: the rows searchDocuments returns are in ascending order of the
\* cosine distance between their chunk and the query embedding, each row's
\* similarity is 1 - that distance, and so the similarities never increase
\* along the sequence.
C23_RetrievalOrdering ==
  retrieval.pc = "returned" =>
    LET res == retrieval.results
    IN /\ \A i \in 1..Len(res) :
            res[i].similarity = 2 - C23_DistanceOf(res[i])
       /\ \A i, j \in 1..Len(res) :
            i < j => /\ C23_DistanceOf(res[i]) <= C23_DistanceOf(res[j])
                     /\ res[i].similarity >= res[j].similarity

\* C23 witness: a call returned three rows, two of them at the same
\* similarity and the last one strictly less similar than the first.
C23_Witness ==
  /\ retrieval.pc = "returned"
  /\ Len(retrieval.results) = 3
  /\ retrieval.results[1].similarity = retrieval.results[2].similarity
  /\ retrieval.results[2].similarity > retrieval.results[3].similarity

\* the ids of the returned rows
C24_Returned == {retrieval.results[i].id : i \in 1..Len(retrieval.results)}

\* C24: searchDocuments returns min(matchCount, m) rows, m being the number
\* of chunks that satisfy the filter; the rows are distinct chunks that
\* satisfy the filter, and no chunk left out is closer to the query than a
\* returned one; with matchCount at least m every matching chunk is
\* returned; and a call whose query executed returns, with no error, also
\* when no chunk matches.
C24_RetrievalTruncation ==
  LET matching == Matching(documents, retrieval.filter)
      m == Cardinality(matching)
      res == retrieval.results
  IN /\ retrieval.pc = "returned" =>
          /\ retrieval.err = "none"
          /\ Len(res) = IF retrieval.matchCount < m
                        THEN retrieval.matchCount ELSE m
          /\ Cardinality(C24_Returned) = Len(res)
          /\ C24_Returned \subseteq matching
          /\ \A i \in 1..Len(res) :
               \A id \in matching \ C24_Returned :
                 Distance2(documents[id].embedding, retrieval.embedding)
                   >= C23_DistanceOf(res[i])
          /\ retrieval.matchCount >= m => C24_Returned = matching
     /\ retrieval.pc = "threw" =>
          retrieval.err = "Failed to search documents" /\ res = <<>>

\* C24 witness: three chunks match and matchCount is 5: the call returned
\* those three.
C24_Witness ==
  /\ retrieval.pc = "returned"
  /\ retrieval.matchCount = 5
  /\ Cardinality(Matching(documents, retrieval.filter)) = 3
  /\ Len(retrieval.results) = 3

\* the lines of the response of the call that hold a character other than
\* a blank, and the k-th of them
C25_NonBlank(lines) ==
  {i \in 1..Len(lines) : \E j \in 1..Len(lines[i]) : lines[i][j] /= Blank}
C25_Kth(idx, k) ==
  CHOOSE i \in idx : Cardinality({j \in idx : j < i}) = k - 1
C25_Blanks(n) == [i \in 1..n |-> Blank]

\* C25: generateSearchKeywords returns at most 5 keywords; none is empty,
\* starts with a blank or ends with one; there are as many as the response
\* has non-blank lines, up to 5; and the k-th keyword is the k-th non-blank
\* line without the blanks before and after it.
C25_KeywordCap ==
  extraction.pc = "returned" =>
    LET kws == extraction.keywords
        lines == Split(extraction.text.chars)
        idx == C25_NonBlank(lines)
    IN /\ Len(kws) <= 5
       /\ \A k \in 1..Len(kws) :
            /\ kws[k] /= <<>>
            /\ kws[k][1] /= Blank /\ kws[k][Len(kws[k])] /= Blank
            /\ \A j \in 1..Len(kws[k]) : kws[k][j] /= LF
       /\ Len(kws) = IF Cardinality(idx) < 5 THEN Cardinality(idx) ELSE 5
       /\ \A k \in 1..Len(kws) :
            LET line == lines[C25_Kth(idx, k)]
            IN \E a, b \in 0..Len(line) :
                 line = C25_Blanks(a) \o kws[k] \o C25_Blanks(b)

\* C25 witness: a response of six non-blank lines gave five keywords.
C25_Witness ==
  /\ extraction.pc = "returned"
  /\ Cardinality(C25_NonBlank(Split(extraction.text.chars))) = 6
  /\ Len(extraction.keywords) = 5

\* the run has received the result of generateSearchKeywords
C26_Extracted(r) == HasEntry(run[r].log, "op", "ret_keywords")

\* the run's debit call was made and resolved
C26_Debited(r) == HasEntry(run[r].log, "op", "ret_debit")

\* C26 as stated: the token count keyword extraction reports is the
\* provider's usage when there is one and countTokens of the text otherwise,
\* so it is never absent, and a debited run never counts it as 0.
C26_UsageFallback ==
  \A r \in Runs :
    C26_Extracted(r) =>
      /\ run[r].kwUsage.has
      /\ run[r].kwProvider.has => run[r].kwUsage = run[r].kwProvider
      /\ ~run[r].kwProvider.has =>
           run[r].kwUsage.n = countTokens(run[r].text.len)
      /\ C26_Debited(r) =>
           run[r].finalTokens > run[r].embTokens + OrZero(run[r].ansUsage)

\* C26 amended: the token count keyword extraction reports is the provider's
\* usage when there is one and is absent otherwise; the amount a search or qa
\* run passes to the debit is that count, or 0 when it is absent, plus the
\* embedding's count, plus in qa the answer's count or 0 when that is absent;
\* and that amount is what the run's ledger entry holds.
C26_UsageAsReported ==
  \A r \in Runs :
    C26_Extracted(r) =>
      /\ run[r].kwUsage = run[r].kwProvider
      /\ \A i \in Positions(run[r].log, "op", "call_debit") :
           run[r].log[i].v =
             (IF run[r].kwProvider.has THEN run[r].kwProvider.n ELSE 0)
               + run[r].embTokens
               + (IF run[r].feature = "qa" /\ run[r].ansUsage.has
                  THEN run[r].ansUsage.n ELSE 0)
      /\ \A i \in 1..Len(LedgerBy(r)) :
           \E j \in Positions(run[r].log, "op", "call_debit") :
             LedgerBy(r)[i].n = run[r].log[j].v

\* C26 witness: a qa run whose keyword call came back with no usage ended
\* successfully, and its ledger entry holds the embedding's and the answer's
\* tokens only.
C26_Witness ==
  \E r \in Runs :
    /\ run[r].feature = "qa" /\ run[r].outcome = "ok"
    /\ C26_Extracted(r) /\ ~run[r].kwProvider.has
    /\ run[r].ansUsage.has
    /\ Len(LedgerBy(r)) = 1
    /\ LedgerBy(r)[1].n = run[r].embTokens + run[r].ansUsage.n

\* C27: in the contents sent to the model, every tool-result turn follows
\* the model's tool-call turn of the same iteration and holds as many
\* function responses as that turn holds function calls, and every
\* tool-call turn is followed by its tool-result turn.
C27_OneResultPerCall ==
  \A r \in Runs :
    LET c == run[r].contents
    IN \A i \in 1..Len(c) :
         /\ c[i].kind = "results" =>
              /\ i > 1 /\ c[i - 1].kind = "calls"
              /\ c[i].n = c[i - 1].n
         /\ c[i].kind = "calls" =>
              i < Len(c) /\ c[i + 1].kind = "results"

\* the rows of a history table written by run r
C28_RowsBy(table, r) == SelectSeq(table, LAMBDA e : e.by = r)

\* the assistant messages persisted by run r
C28_AssistantBy(r) ==
  SelectSeq(messages, LAMBDA m : m.by = r /\ m.role = "assistant")

\* C28: in a run that ended successfully, the tokens_used sent to the caller
\* is the amount of the run's one debit call and of its one ledger entry; a
\* search or qa run wrote one history row, which holds that amount; and a
\* consultant run whose save went through persisted one assistant message,
\* which holds that amount (with a failed save it persisted none).
C28_ReportedIsBilled ==
  \A r \in Runs :
    run[r].outcome = "ok" =>
      LET rr == run[r]
          sent == IF rr.feature = "search" THEN {rr.reported}
                  ELSE {rr.log[i].v :
                          i \in Positions(rr.log, "ev", "tokens")
                                 \cup Positions(rr.log, "ev", "completion")}
          debits == Positions(rr.log, "op", "call_debit")
      IN /\ sent = {rr.reported}
         /\ Cardinality(debits) = 1
         /\ \A i \in debits : rr.log[i].v = rr.reported
         /\ Len(LedgerBy(r)) = 1 /\ LedgerBy(r)[1].n = rr.reported
         /\ rr.feature = "search" =>
              /\ Len(C28_RowsBy(searchHistory, r)) = 1
              /\ C28_RowsBy(searchHistory, r)[1].tokens = rr.reported
         /\ rr.feature = "qa" =>
              /\ Len(C28_RowsBy(qaHistory, r)) = 1
              /\ C28_RowsBy(qaHistory, r)[1].tokens = rr.reported
         /\ rr.feature = "consultant" =>
              /\ \A i \in 1..Len(C28_AssistantBy(r)) :
                   C28_AssistantBy(r)[i].tokens = rr.reported
              /\ Len(C28_AssistantBy(r)) =
                   IF HasEntry(rr.log, "op", "ret_save") THEN 1 ELSE 0

\* C28 witness: a consultant run on the pro model, billed ten times the
\* tokens the model reported, ended successfully with its assistant message
\* persisted.
C28_Witness ==
  \E r \in Runs :
    /\ run[r].feature = "consultant" /\ run[r].outcome = "ok"
    /\ run[r].usePro /\ run[r].reported > run[r].total
    /\ Len(C28_AssistantBy(r)) = 1
    /\ C28_AssistantBy(r)[1].tokens = run[r].reported

\* C29: when a search or qa run has ended, it has a ledger entry if and
\* only if its history row was written and the caller was sent the success
\* response or the tokens event; no run is debited and reported as failed.
C29_DebitHistoryPaired ==
  \A r \in Runs :
    (run[r].feature \in {"search", "qa"}
       /\ run[r].pc \in {"responded", "closed"}) =>
      LET history == IF run[r].feature = "search"
                     THEN searchHistory ELSE qaHistory
          written == C28_RowsBy(history, r) /= <<>>
      IN /\ LedgerBy(r) /= <<>> <=> (written /\ run[r].outcome = "ok")
         /\ ~(LedgerBy(r) /= <<>> /\ run[r].outcome = "failed")

\* C30: a qa or consultant handler never calls controller.close() a second
\* time, and when it has finished it has called it once and the stream is
\* closed.
C30_ClosedOnce ==
  \A r \in Runs :
    run[r].feature \in {"qa", "consultant"} =>
      /\ run[r].closes <= 1
      /\ Cardinality(Positions(run[r].log, "op", "close")) = run[r].closes
      /\ run[r].pc = "closed" =>
           run[r].closes = 1 /\ run[r].stream = "closed"

====
